---------------------------- MODULE Spec2Model ----------------------------
(***************************************************************************)
(* svg2sheet: the conversion options, the converter registry, the          *)
(* configuration checks of a run, the text probe of an SVG's intrinsic     *)
(* size, the dimension query of the external-command backends, the         *)
(* browser backend's conversion, the image utilities, the spritesheet     *)
(* generator, and a run on an input directory with the files it leaves.    *)
(*                                                                         *)
(* Go's float64 is modelled bit-exactly for the operations the code uses   *)
(* (division, multiplication, square root, ceiling, conversion to int): a  *)
(* finite value is neg * m * 2^e with m a natural number of at most 53     *)
(* bits, kept as a little-endian sequence of 15-bit limbs, and every       *)
(* operation rounds to nearest, ties to even.                              *)
(***************************************************************************)
EXTENDS Integers, Sequences, FiniteSets, TLC

VARIABLES
    dimIn,      \* SpecDims: the arguments of CalculateDimensions
    dimOut,     \* SpecDims: its result, <<width, height>>, or "none"
    regEnv,     \* SpecRegistry: what the host has installed
    regCall,    \* SpecRegistry: the last call made on the registry
    regResult,  \* SpecRegistry: what that call returned
    flags,      \* SpecRun: the command line, as parsed into cfg
    cfg,        \* SpecRun: the global cfg of package cmd
    pc,         \* SpecRun: where runSvg2Sheet is
    runErr,     \* SpecRun: the error runSvg2Sheet returns
    backend,    \* SpecRun: the backend NewConverter holds
    rendered,   \* SpecRun: the size the backend rasterized at
    runHost,    \* SpecRun: the browsers the run launched, and those it closed
    probeIn,    \* SpecProbe: the SVG source handed to parseSVGDimensions
    probeOut,   \* SpecProbe: what parseSVGDimensions returned
    queryIn,    \* SpecQuery: the SVG file handed to getSVGDimensions
    queryOut,   \* SpecQuery: what getSVGDimensions returned
    rodConv,    \* SpecRod: the RodConverter (its options and browser)
    rodSrc,     \* SpecRod: the svgData of the calls
    rodPc,      \* SpecRod: where ConvertToImage is
    rodFrame,   \* SpecRod: the locals of the running ConvertToImage
    rodOut,     \* SpecRod: how the last ConvertToImage ended
    rodCalls,   \* SpecRod: the number of calls started
    rodHost,    \* SpecRod: the browser processes launched, the Close calls made
    imgCfg,     \* SpecImage: the Trim, TileWidth and TileHeight of the config
    imgSrc,     \* SpecImage: the image png.Decode returned
    imgTrims,   \* SpecImage: the results of TrimTransparent, applied in turn
    imgResized, \* SpecImage: the result of ResizeImage
    imgInfo,    \* SpecImage: the ImageInfo loadImages appended
    genCfg,     \* SpecSheet: the config of the Generator
    genFiles,   \* SpecSheet: the images of the files still to load
    genPc,      \* SpecSheet: where Generate is
    genImages,  \* SpecSheet: the ImageInfo list
    genLayout,  \* SpecSheet: the Layout
    genSheet,   \* SpecSheet: the spritesheet canvas
    genMeta,    \* SpecSheet: the SpritesheetMetadata
    genOut,     \* SpecSheet: what Generate or createSpritesheet returned
    batFlags,   \* SpecBatch: the command line, as parsed into cfg
    batCfg,     \* SpecBatch: the global cfg of package cmd
    batPc,      \* SpecBatch: where the run is
    batErr,     \* SpecBatch: the error runSvg2Sheet returns
    batDir,     \* SpecBatch: the paths of the files under the input directory
    batFs,      \* SpecBatch: the output file, the metadata file, the temp files
    batFiles,   \* SpecBatch: sortedFiles
    batIndex,   \* SpecBatch: the files preparePNGFiles has been through
    batMappings,\* SpecBatch: the fileMappings of preparePNGFiles
    batTemps,   \* SpecBatch: the tempFiles of preparePNGFiles
    batMeta,    \* SpecBatch: the metadata Generate returned
    batWork     \* SpecBatch: the conversions, image loads and file writes made

dimVars == <<dimIn, dimOut>>
regVars == <<regEnv, regCall, regResult>>
runVars == <<flags, cfg, pc, runErr, backend, rendered, runHost>>
probeVars == <<probeIn, probeOut>>
queryVars == <<queryIn, queryOut>>
rodVars == <<rodConv, rodSrc, rodPc, rodFrame, rodOut, rodCalls, rodHost>>
imageVars == <<imgCfg, imgSrc, imgTrims, imgResized, imgInfo>>
sheetVars == <<genCfg, genFiles, genPc, genImages, genLayout, genSheet, genMeta, genOut>>
batchVars ==
    <<batFlags, batCfg, batPc, batErr, batDir, batFs, batFiles, batIndex,
      batMappings, batTemps, batMeta, batWork>>
vars == <<dimVars, regVars, runVars, probeVars, queryVars, rodVars, imageVars, sheetVars, batchVars>>
notDims == <<regVars, runVars, probeVars, queryVars, rodVars, imageVars, sheetVars, batchVars>>
notRegistry == <<dimVars, runVars, probeVars, queryVars, rodVars, imageVars, sheetVars, batchVars>>
notRun == <<dimVars, regVars, probeVars, queryVars, rodVars, imageVars, sheetVars, batchVars>>
notProbe == <<dimVars, regVars, runVars, queryVars, rodVars, imageVars, sheetVars, batchVars>>
notQuery == <<dimVars, regVars, runVars, probeVars, rodVars, imageVars, sheetVars, batchVars>>
notRod == <<dimVars, regVars, runVars, probeVars, queryVars, imageVars, sheetVars, batchVars>>
notImage == <<dimVars, regVars, runVars, probeVars, queryVars, rodVars, sheetVars, batchVars>>
notSheet == <<dimVars, regVars, runVars, probeVars, queryVars, rodVars, imageVars, batchVars>>
notBatch == <<dimVars, regVars, runVars, probeVars, queryVars, rodVars, imageVars, sheetVars>>

(***************************************************************************)
(* Bounds of the model.                                                    *)
(***************************************************************************)
MaxSrc == 15            \* source sizes are 1/2 and 1 .. MaxSrc
MaxTarget == 15         \* --width / --height are 0 .. MaxTarget
MaxScaleTenths == 25    \* --scale is k/10, k in 1 .. MaxScaleTenths
MaxImage == 2           \* decoded images are 1 .. MaxImage pixels wide and high
MaxVisible == 2         \* decoded images have at most MaxVisible pixels of alpha > 0
MaxTile == 2            \* TileWidth and TileHeight are 1 .. MaxTile
MaxFiles == 3           \* Generate is given 0 .. MaxFiles files
MaxHint == 3            \* Cols and Rows are 0 .. MaxHint
MaxPadding == 1         \* Padding is 0 .. MaxPadding
StripSrc == 30          \* decoded strips are StripSrc x 1 pixels
StripTile == 22         \* and are resized to a tile of StripTile x 1

(***************************************************************************)
(* Natural numbers of any size: little-endian limbs below LimbBase, no     *)
(* leading zero limb; <<>> is 0.                                           *)
(***************************************************************************)
LimbBase == 2^15

RECURSIVE BigNorm(_)
BigNorm(b) ==
    IF b = <<>> THEN <<>>
    ELSE IF b[Len(b)] = 0 THEN BigNorm(SubSeq(b, 1, Len(b) - 1))
    ELSE b

RECURSIVE BigFromNat(_)
BigFromNat(n) ==
    IF n = 0 THEN <<>> ELSE <<n % LimbBase>> \o BigFromNat(n \div LimbBase)

RECURSIVE BigToNat(_)
BigToNat(b) ==
    IF b = <<>> THEN 0 ELSE b[1] + LimbBase * BigToNat(Tail(b))

\* b * k + carry, for k and carry below LimbBase
RECURSIVE BigMulSmallC(_, _, _)
BigMulSmallC(b, k, carry) ==
    IF b = <<>> THEN BigFromNat(carry)
    ELSE LET t == b[1] * k + carry
         IN  <<t % LimbBase>> \o BigMulSmallC(Tail(b), k, t \div LimbBase)

BigMulSmall(b, k) == BigNorm(BigMulSmallC(b, k, 0))

RECURSIVE BigAddC(_, _, _)
BigAddC(a, b, carry) ==
    IF a = <<>> /\ b = <<>> THEN BigFromNat(carry)
    ELSE LET x == IF a = <<>> THEN 0 ELSE a[1]
             y == IF b = <<>> THEN 0 ELSE b[1]
             t == x + y + carry
         IN  <<t % LimbBase>>
                \o BigAddC(IF a = <<>> THEN <<>> ELSE Tail(a),
                           IF b = <<>> THEN <<>> ELSE Tail(b),
                           t \div LimbBase)

BigAdd(a, b) == BigNorm(BigAddC(a, b, 0))

RECURSIVE BigMul(_, _)
BigMul(a, b) ==
    IF a = <<>> \/ b = <<>> THEN <<>>
    ELSE LET rest == BigMul(a, Tail(b))
         IN  IF rest = <<>> THEN BigMulSmall(a, b[1])
             ELSE BigAdd(BigMulSmall(a, b[1]), <<0>> \o rest)

\* quotient and remainder of b by k, 0 < k < LimbBase
RECURSIVE BigDivRec(_, _)
BigDivRec(b, k) ==
    IF b = <<>> THEN [q |-> <<>>, r |-> 0]
    ELSE LET hi  == BigDivRec(Tail(b), k)
             cur == hi.r * LimbBase + b[1]
         IN  [q |-> <<cur \div k>> \o hi.q, r |-> cur % k]

BigDivSmall(b, k) ==
    LET d == BigDivRec(b, k) IN [q |-> BigNorm(d.q), r |-> d.r]

RECURSIVE BitLenNat(_)
BitLenNat(n) == IF n = 0 THEN 0 ELSE 1 + BitLenNat(n \div 2)

LimbBits == BitLenNat(LimbBase) - 1

BigBitLen(b) ==
    IF b = <<>> THEN 0 ELSE LimbBits * (Len(b) - 1) + BitLenNat(b[Len(b)])

BigShl(b, n) ==
    IF b = <<>> THEN <<>>
    ELSE [i \in 1 .. (n \div LimbBits) |-> 0] \o BigMulSmall(b, 2^(n % LimbBits))

BigShr(b, n) ==
    IF n \div LimbBits >= Len(b) THEN <<>>
    ELSE BigDivSmall(SubSeq(b, (n \div LimbBits) + 1, Len(b)), 2^(n % LimbBits)).q

\* bit i of b, bit 0 the least significant
BigBit(b, i) ==
    IF (i \div LimbBits) + 1 > Len(b) THEN 0
    ELSE (b[(i \div LimbBits) + 1] \div 2^(i % LimbBits)) % 2

\* whether one of the n low bits of b is set
BigLowNonzero(b, n) ==
    \/ \E j \in 1 .. (n \div LimbBits) : j <= Len(b) /\ b[j] # 0
    \/ /\ (n \div LimbBits) + 1 <= Len(b)
       /\ b[(n \div LimbBits) + 1] % 2^(n % LimbBits) # 0


(***************************************************************************)
(* float64.  NaN is [nan |-> TRUE]; a finite value is neg * m * 2^e.       *)
(***************************************************************************)
MantBits == 53

FNaN == [nan |-> TRUE, neg |-> FALSE, m |-> <<>>, e |-> 0]
FZero == [nan |-> FALSE, neg |-> FALSE, m |-> <<>>, e |-> 0]

\* the same value m * 2^e with m odd (or 0): one representation per value
RECURSIVE Canon(_, _)
Canon(m, e) ==
    IF m = <<>> THEN [m |-> <<>>, e |-> 0]
    ELSE IF m[1] = 0 THEN Canon(Tail(m), e + LimbBits)
    ELSE IF m[1] % 2 = 0 THEN Canon(BigShr(m, 1), e + 1)
    ELSE [m |-> m, e |-> e]

\* round m * 2^e to MantBits bits, to nearest, ties to even
RoundToMant(m, e) ==
    LET len == BigBitLen(m) IN
    IF len <= MantBits THEN Canon(m, e)
    ELSE LET d  == len - MantBits
             q  == BigShr(m, d)
             up == /\ BigBit(m, d - 1) = 1
                   /\ (BigLowNonzero(m, d - 1) \/ BigBit(q, 0) = 1)
         IN  Canon(IF up THEN BigAdd(q, <<1>>) ELSE q, e + d)

FFromInt(n) ==
    LET a == IF n < 0 THEN -n ELSE n
        c == Canon(BigFromNat(a), 0)
    IN  [nan |-> FALSE, neg |-> n < 0, m |-> c.m, e |-> c.e]

FIsZero(x) == ~x.nan /\ x.m = <<>>          \* x == 0
FGtZero(x) == ~x.nan /\ x.m # <<>> /\ ~x.neg  \* x > 0
FLtZero(x) == ~x.nan /\ x.m # <<>> /\ x.neg   \* x < 0
FNeZero(x) == ~FIsZero(x)                   \* x != 0, true of NaN
FGeZero(x) == ~x.nan /\ (x.m = <<>> \/ ~x.neg)  \* x >= 0, false of NaN

\* a * b
FMul(a, b) ==
    IF a.nan \/ b.nan THEN FNaN
    ELSE LET r == RoundToMant(BigMul(a.m, b.m), a.e + b.e)
         IN  [nan |-> FALSE, neg |-> (a.neg # b.neg), m |-> r.m, e |-> r.e]

\* a / b for a finite divisor b # 0 whose significand is a single limb: the
\* quotient is taken with DivShift extra bits and a sticky bit, then rounded
DivShift == 5 * LimbBits
FDiv(a, b) ==
    IF a.nan \/ b.nan THEN FNaN
    ELSE IF a.m = <<>> THEN [FZero EXCEPT !.neg = (a.neg # b.neg)]
    ELSE LET d == BigDivSmall(BigShl(a.m, DivShift), b.m[1])
             s == BigAdd(BigShl(d.q, 1), IF d.r = 0 THEN <<>> ELSE <<1>>)
             r == RoundToMant(s, a.e - b.e - DivShift - 1)
         IN  [nan |-> FALSE, neg |-> (a.neg # b.neg), m |-> r.m, e |-> r.e]

\* int(x) rounding to nearest, halves up, instead of truncating
FToIntRounding(x) ==
    LET a == IF x.e >= 0 THEN BigToNat(BigShl(x.m, x.e))
             ELSE BigToNat(BigShr(x.m, -x.e)) + BigBit(x.m, (-x.e) - 1)
    IN  IF x.neg THEN -a ELSE a

\* Go's int(x) for a finite x: truncation toward zero
FToInt(x) ==
    LET a == IF x.e >= 0 THEN BigToNat(BigShl(x.m, x.e))
             ELSE BigToNat(BigShr(x.m, -x.e))
    IN  IF x.neg THEN -a ELSE a

\* a <= b
RECURSIVE BigLe(_, _)
BigLe(a, b) ==
    IF Len(a) # Len(b) THEN Len(a) < Len(b)
    ELSE IF a = <<>> THEN TRUE
    ELSE IF a[Len(a)] # b[Len(b)] THEN a[Len(a)] < b[Len(b)]
    ELSE BigLe(SubSeq(a, 1, Len(a) - 1), SubSeq(b, 1, Len(b) - 1))

\* the largest r + k*2^i with k below 16 and (r + k*2^i)^2 <= b, and so on
\* down to i = 0: the integer square root of b, four bits at a time, for r a
\* multiple of 2^(i+4) with r^2 <= b
RECURSIVE BigSqrtFrom(_, _, _)
BigSqrtFrom(b, r, i) ==
    IF i < 0 THEN r
    ELSE LET with(k) == BigAdd(r, BigShl(BigFromNat(k), i))
             fit == {k \in 0 .. 15 : BigLe(BigMul(with(k), with(k)), b)}
             top == CHOOSE k \in fit : \A j \in fit : j <= k
         IN  IF top = 0 THEN BigSqrtFrom(b, r, i - 4)
             ELSE BigSqrtFrom(b, with(top), i - 4)

\* math.Sqrt(x) for a finite x >= 0: the significand is widened to SqrtBits
\* bits with an even exponent, its integer square root taken with a sticky
\* bit, and the result rounded
SqrtBits == 2 * (MantBits + 3)
FSqrt(x) ==
    IF x.nan \/ FLtZero(x) THEN FNaN
    ELSE IF x.m = <<>> THEN x
    ELSE LET s0 == SqrtBits - BigBitLen(x.m)
             s  == s0 + ((x.e - s0) % 2)
             b  == BigShl(x.m, s)
             r  == BigSqrtFrom(b, <<>>, 4 * ((MantBits + 3) \div 4))
             c  == IF BigMul(r, r) = b
                   THEN RoundToMant(BigShl(r, 1), ((x.e - s) \div 2) - 1)
                   ELSE RoundToMant(BigAdd(BigShl(r, 1), <<1>>),
                                    ((x.e - s) \div 2) - 1)
         IN  [nan |-> FALSE, neg |-> FALSE, m |-> c.m, e |-> c.e]

\* math.Ceil(x): the least integer value >= x
FCeil(x) ==
    IF x.nan \/ x.e >= 0 THEN x
    ELSE LET q == BigShr(x.m, -x.e)
             c == Canon(IF x.neg THEN q ELSE BigAdd(q, <<1>>), 0)
         IN  [nan |-> FALSE, neg |-> x.neg, m |-> c.m, e |-> c.e]

\* math.Floor(x), in the place of math.Ceil(x)
FFloor(x) ==
    IF x.nan \/ x.e >= 0 THEN x
    ELSE LET q == BigShr(x.m, -x.e)
             c == Canon(IF x.neg THEN BigAdd(q, <<1>>) ELSE q, 0)
         IN  [nan |-> FALSE, neg |-> x.neg, m |-> c.m, e |-> c.e]

(***************************************************************************)
(* Numbers as they are written in a flag or in an SVG attribute: n/d, and  *)
(* d = 0 for NaN.  ToFloat is the float64 nearest to n/d, which is what    *)
(* strconv.ParseFloat and fmt's %f return for the decimal.                 *)
(***************************************************************************)
Lit(n, d) == [n |-> n, d |-> d]
LitNaN == Lit(0, 0)
ToFloat(l) == IF l.d = 0 THEN FNaN ELSE FDiv(FFromInt(l.n), FFromInt(l.d))

(***************************************************************************)
(* ConversionOptions.CalculateDimensions                                   *)
(***************************************************************************)
CalculateDimensions(opts, origWidth, origHeight) ==
    IF FIsZero(opts.Scale) /\ opts.Width = 0 /\ opts.Height = 0
    THEN <<FToInt(origWidth), FToInt(origHeight)>>
    ELSE IF FGtZero(opts.Scale)
    THEN <<FToInt(FMul(origWidth, opts.Scale)), FToInt(FMul(origHeight, opts.Scale))>>
    ELSE IF opts.Width > 0 /\ opts.Height > 0
    THEN <<opts.Width, opts.Height>>
    ELSE IF opts.Width > 0
    THEN LET aspectRatio == FDiv(origHeight, origWidth)
         IN  <<opts.Width, FToInt(FMul(FFromInt(opts.Width), aspectRatio))>>
    ELSE IF opts.Height > 0
    THEN LET aspectRatio == FDiv(origWidth, origHeight)
         IN  <<FToInt(FMul(FFromInt(opts.Height), aspectRatio)), opts.Height>>
    ELSE <<FToInt(origWidth), FToInt(origHeight)>>

\* the options as the code holds them: Scale a float64
OptsOf(o) ==
    [Scale |-> ToFloat(o.Scale), Width |-> o.Width, Height |-> o.Height,
     Verbose |-> FALSE]

(***************************************************************************)
(* SpecDims: CalculateDimensions applied to every source size and every    *)
(* options value of the bounded sets.                                      *)
(***************************************************************************)
SrcLits == {Lit(1, 2)} \cup {Lit(k, 1) : k \in 1 .. MaxSrc}
ScaleLits == {Lit(0, 1), LitNaN} \cup {Lit(k, 10) : k \in 1 .. MaxScaleTenths}
DimOpts ==
    {o \in [Scale : ScaleLits, Width : 0 .. MaxTarget, Height : 0 .. MaxTarget] :
        \/ o.Width \in {0, MaxTarget} /\ o.Height \in {0, MaxTarget}
        \/ o.Scale.n = 0 /\ (o.Width = 0 \/ o.Height = 0)}

\* a variable of a part the specification at hand does not run, and a call
\* not made yet
Off == [op |-> "off"]
None == [op |-> "none"]
Returned(v) == [op |-> "returned", result |-> v]

DimsIdle == dimIn = Off /\ dimOut = Off
RegistryIdle == regEnv = Off /\ regCall = Off /\ regResult = Off
RunIdle ==
    /\ flags = Off /\ cfg = Off /\ pc = "off"
    /\ runErr = Off /\ backend = Off /\ rendered = Off /\ runHost = Off
ImageIdle ==
    /\ imgCfg = Off /\ imgSrc = Off /\ imgTrims = Off /\ imgResized = Off
    /\ imgInfo = Off
SheetIdle ==
    /\ genCfg = Off /\ genFiles = Off /\ genPc = Off /\ genImages = Off
    /\ genLayout = Off /\ genSheet = Off /\ genMeta = Off /\ genOut = Off
BatchIdle ==
    /\ batFlags = Off /\ batCfg = Off /\ batPc = Off /\ batErr = Off
    /\ batDir = Off /\ batFs = Off /\ batFiles = Off /\ batIndex = Off
    /\ batMappings = Off /\ batTemps = Off /\ batMeta = Off /\ batWork = Off
ProbeIdle == probeIn = Off /\ probeOut = Off
QueryIdle == queryIn = Off /\ queryOut = Off
RodIdle ==
    /\ rodConv = Off /\ rodSrc = Off /\ rodPc = "off"
    /\ rodFrame = Off /\ rodOut = Off /\ rodCalls = 0 /\ rodHost = Off

InitDims ==
    /\ dimIn \in [origWidth : SrcLits, origHeight : SrcLits, opts : DimOpts]
    /\ dimOut = None
    /\ RegistryIdle /\ RunIdle /\ ProbeIdle /\ QueryIdle /\ RodIdle /\ ImageIdle /\ SheetIdle
    /\ BatchIdle

ApplyCalculateDimensions ==
    /\ dimOut = None
    /\ dimOut' = Returned(CalculateDimensions(OptsOf(dimIn.opts),
                                              ToFloat(dimIn.origWidth),
                                              ToFloat(dimIn.origHeight)))
    /\ UNCHANGED <<dimIn, notDims>>

NextDims == ApplyCalculateDimensions

SpecDims == InitDims /\ [][NextDims]_vars

\* the elements of a list, and the orders a set can be listed in
Range(seq) == {seq[k] : k \in 1 .. Len(seq)}
Perms(S) ==
    {f \in [1 .. Cardinality(S) -> S] :
        \A i, j \in 1 .. Cardinality(S) : i # j => f[i] # f[j]}

(***************************************************************************)
(* The converter backends and the registry.  Nil is Go's nil.              *)
(***************************************************************************)
Nil == [kind |-> "nil"]
Error(msg) == [kind |-> "error", msg |-> msg]

ConverterOkSVG == "oksvg"
ConverterRod == "rod"
ConverterRSVG == "rsvg"
ConverterInkscape == "inkscape"

\* what a host may have installed: Chrome, rsvg-convert, inkscape
Envs == [chrome : BOOLEAN, rsvg : {"ok", "missing", "broken"}, inkscape : BOOLEAN]

\* NewOkSVGConverter, NewRodConverter, NewRSVGConverter, NewInkscapeConverter
NewOkSVGConverter(options) == [type |-> ConverterOkSVG, options |-> options]
NewRodConverter(options) == [type |-> ConverterRod, options |-> options, browser |-> Nil]
NewRSVGConverter(options) == [type |-> ConverterRSVG, options |-> options]
NewInkscapeConverter(options) == [type |-> ConverterInkscape, options |-> options]

\* each backend's IsAvailable: the error's text, or Nil
OkSVGIsAvailable(env) == Nil
RodIsAvailable(env) ==
    IF ~env.chrome THEN Error("Chrome/Chromium browser not found") ELSE Nil
RSVGIsAvailable(env) ==
    IF env.rsvg = "missing" THEN Error("rsvg-convert command not found")
    ELSE IF env.rsvg = "broken" THEN Error("rsvg-convert command failed")
    ELSE Nil
InkscapeIsAvailable(env) ==
    IF ~env.inkscape THEN Error("inkscape command not found") ELSE Nil

IsAvailable(converter, env) ==
    CASE converter.type = ConverterOkSVG -> OkSVGIsAvailable(env)
      [] converter.type = ConverterRod -> RodIsAvailable(env)
      [] converter.type = ConverterRSVG -> RSVGIsAvailable(env)
      [] converter.type = ConverterInkscape -> InkscapeIsAvailable(env)

\* NewConverterRegistry: the identifiers registered, and each one's factory
RegisteredTypes == {ConverterOkSVG, ConverterRod, ConverterRSVG, ConverterInkscape}
Factory(converterType, opts) ==
    CASE converterType = ConverterOkSVG -> NewOkSVGConverter(opts)
      [] converterType = ConverterRod -> NewRodConverter(opts)
      [] converterType = ConverterRSVG -> NewRSVGConverter(opts)
      [] converterType = ConverterInkscape -> NewInkscapeConverter(opts)

ConverterNotFoundError(converterType) ==
    [kind |-> "ConverterNotFoundError", ConverterType |-> converterType]
ConverterUnavailableError(converterType, reason) ==
    [kind |-> "ConverterUnavailableError", ConverterType |-> converterType,
     Reason |-> reason]

\* Create without the availability check
CreateUnchecked(converterType, opts, env) ==
    IF converterType \notin RegisteredTypes
    THEN [converter |-> Nil, err |-> ConverterNotFoundError(converterType)]
    ELSE [converter |-> Factory(converterType, opts), err |-> Nil]

\* ConverterRegistry.Create
Create(converterType, opts, env) ==
    IF converterType \notin RegisteredTypes
    THEN [converter |-> Nil, err |-> ConverterNotFoundError(converterType)]
    ELSE LET converter == Factory(converterType, opts)
             err == IsAvailable(converter, env)
         IN  IF err # Nil
             THEN [converter |-> Nil,
                   err |-> ConverterUnavailableError(converterType, err.msg)]
             ELSE [converter |-> converter, err |-> Nil]

\* each backend's Name and Description
ConverterName(converter) ==
    CASE converter.type = ConverterOkSVG -> "OkSVG"
      [] converter.type = ConverterRod -> "Rod Browser"
      [] converter.type = ConverterRSVG -> "RSVG (librsvg)"
      [] converter.type = ConverterInkscape -> "Inkscape"
ConverterDescription(converter) ==
    CASE converter.type = ConverterOkSVG ->
            "Pure Go SVG renderer using oksvg+rasterx. Fast and lightweight, good for simple SVGs."
      [] converter.type = ConverterRod ->
            "High-quality SVG rendering using Chrome/Chromium browser automation. Excellent compatibility and quality."
      [] converter.type = ConverterRSVG ->
            "System rsvg-convert command using librsvg. Excellent SVG compatibility and performance."
      [] converter.type = ConverterInkscape ->
            "Inkscape command-line tool. Professional-grade SVG rendering with excellent compatibility and features."

\* a listing of every registered identifier, available or not
ListRegistered(opts, env) == Perms(RegisteredTypes)

\* ConverterRegistry.ListAvailable: the lists it can return; the range over
\* the map visits the identifiers in an order that is not specified
ListAvailable(opts, env) ==
    Perms({converterType \in RegisteredTypes :
             IsAvailable(Factory(converterType, opts), env) = Nil})

\* ConverterRegistry.GetConverterInfo
GetConverterInfo(converterType, opts, env) ==
    IF converterType \notin RegisteredTypes
    THEN [info |-> Nil, err |-> ConverterNotFoundError(converterType)]
    ELSE LET converter == Factory(converterType, opts)
         IN  [info |-> [Type |-> converterType,
                        Name |-> ConverterName(converter),
                        Description |-> ConverterDescription(converter),
                        Available |-> IsAvailable(converter, env) = Nil],
              err |-> Nil]

(***************************************************************************)
(* SpecRegistry: calls on one registry, on a host whose installed tools    *)
(* stay as they are.                                                       *)
(***************************************************************************)
\* identifiers a caller may pass: the registered ones, the empty string and
\* two that no backend has
CallTypes == RegisteredTypes \cup {"", "svg", "OkSVG"}
RegOpts ==
    {[Scale |-> ToFloat(l), Width |-> w, Height |-> 0, Verbose |-> v] :
        l \in {Lit(1, 1), Lit(0, 1)}, w \in {0, 3}, v \in BOOLEAN}

InitRegistry ==
    /\ regEnv \in Envs
    /\ regCall = None
    /\ regResult = None
    /\ DimsIdle /\ RunIdle /\ ProbeIdle /\ QueryIdle /\ RodIdle /\ ImageIdle /\ SheetIdle
    /\ BatchIdle

RegistryCreate ==
    \E converterType \in CallTypes, opts \in RegOpts :
        /\ regCall' = [op |-> "Create", converterType |-> converterType, opts |-> opts]
        /\ regResult' = Create(converterType, opts, regEnv)
        /\ UNCHANGED <<regEnv, notRegistry>>

RegistryListAvailable ==
    \E opts \in RegOpts :
        \E available \in ListAvailable(opts, regEnv) :
            /\ regCall' = [op |-> "ListAvailable", converterType |-> "", opts |-> opts]
            /\ regResult' = available
            /\ UNCHANGED <<regEnv, notRegistry>>

RegistryGetConverterInfo ==
    \E converterType \in CallTypes, opts \in RegOpts :
        /\ regCall' = [op |-> "GetConverterInfo", converterType |-> converterType,
                       opts |-> opts]
        /\ regResult' = GetConverterInfo(converterType, opts, regEnv)
        /\ UNCHANGED <<regEnv, notRegistry>>

NextRegistry == RegistryCreate \/ RegistryListAvailable \/ RegistryGetConverterInfo

SpecRegistry == InitRegistry /\ [][NextRegistry]_vars

(***************************************************************************)
(* Claims about the registry.                                              *)
(***************************************************************************)
Created == regCall.op = "Create"

\* C1: Create returns either a backend and no error, and then the identifier
\* is registered and the instance of its factory answered IsAvailable() = nil,
\* or no backend and an error: ConverterNotFoundError for an identifier that
\* is not registered, ConverterUnavailableError with the identifier and the
\* reason when IsAvailable returned an error.
ThmC1_CreateNeverHandsOutUnavailable ==
    Created =>
        LET t == regCall.converterType
            r == regResult
        IN  /\ (r.converter = Nil) # (r.err = Nil)
            /\ r.converter # Nil =>
                  /\ t \in RegisteredTypes
                  /\ r.converter = Factory(t, regCall.opts)
                  /\ IsAvailable(r.converter, regEnv) = Nil
            /\ t \notin RegisteredTypes => r.err = ConverterNotFoundError(t)
            /\ (t \in RegisteredTypes /\ IsAvailable(Factory(t, regCall.opts), regEnv) # Nil)
                  => r.err = ConverterUnavailableError(
                                 t, IsAvailable(Factory(t, regCall.opts), regEnv).msg)

\* C1, witness: Create("rsvg") on a host without rsvg-convert returned the
\* unavailable error and no backend
WitC1_CreateNeverHandsOutUnavailable ==
    /\ Created
    /\ regCall.converterType = ConverterRSVG
    /\ regEnv.rsvg = "missing"
    /\ regResult.converter = Nil
    /\ regResult.err.kind = "ConverterUnavailableError"

Listed == regCall.op = "ListAvailable"
Informed == regCall.op = "GetConverterInfo"

\* the three answers to the question whether the identifier is available,
\* on the host and with the options of the call made: Create's, that of
\* GetConverterInfo, and that of each list ListAvailable can return
CreateSucceeds(id) == Create(id, regCall.opts, regEnv).err = Nil
InfoAvailable(id) == GetConverterInfo(id, regCall.opts, regEnv).info.Available
ListsAgree(id, answer) ==
    \A available \in ListAvailable(regCall.opts, regEnv) :
        (id \in Range(available)) = answer

\* C27: the three views of the registry agree: a list ListAvailable returned
\* holds a registered identifier exactly if Create succeeds for it and
\* exactly if GetConverterInfo reports it Available, holds no identifier
\* that is not registered and none twice; what Create and GetConverterInfo
\* returned for a registered identifier agrees with the other two views; and
\* GetConverterInfo returns an error exactly for the identifiers that are
\* not registered, never for a backend that is not available.
ThmC27_RegistryViewsAgree ==
    /\ Listed =>
          /\ Range(regResult) \subseteq RegisteredTypes
          /\ Cardinality(Range(regResult)) = Len(regResult)
          /\ \A id \in RegisteredTypes :
                /\ (id \in Range(regResult)) = CreateSucceeds(id)
                /\ (id \in Range(regResult)) = InfoAvailable(id)
    /\ Informed =>
          /\ (regResult.err # Nil) = (regCall.converterType \notin RegisteredTypes)
          /\ (regResult.err = Nil) # (regResult.info = Nil)
          /\ regCall.converterType \in RegisteredTypes =>
                /\ regResult.info.Type = regCall.converterType
                /\ regResult.info.Available = CreateSucceeds(regCall.converterType)
                /\ ListsAgree(regCall.converterType, regResult.info.Available)
    /\ (Created /\ regCall.converterType \in RegisteredTypes) =>
          /\ (regResult.err = Nil) = InfoAvailable(regCall.converterType)
          /\ ListsAgree(regCall.converterType, regResult.err = Nil)

\* on a host with Chrome, a broken rsvg-convert and no inkscape,
\* ListAvailable returned rod before oksvg and nothing else
WitC27_ListOfTwo ==
    /\ Listed
    /\ regEnv = [chrome |-> TRUE, rsvg |-> "broken", inkscape |-> FALSE]
    /\ regResult = <<ConverterRod, ConverterOkSVG>>

\* on the same host GetConverterInfo("inkscape") returned the information,
\* with Available false, and no error
WitC27_InfoOfUnavailable ==
    /\ Informed
    /\ regCall.converterType = ConverterInkscape
    /\ ~regEnv.inkscape
    /\ regResult.err = Nil
    /\ regResult.info.Name = "Inkscape" /\ ~regResult.info.Available

(***************************************************************************)
(* Claims about CalculateDimensions, stated in exact rational arithmetic   *)
(* on the numbers as written (n/d).                                        *)
(***************************************************************************)
DimsDone == dimOut.op = "returned"
resolved == dimOut.result
ScaleSet == dimIn.opts.Scale.d # 0 /\ dimIn.opts.Scale.n > 0
Abs(x) == IF x < 0 THEN -x ELSE x

\* r is N/D truncated, or one less when the float64 product fell just below
\* an integer; exactly N/D truncated when `exact`
TruncatedOf(r, N, D, exact) ==
    /\ r * D <= N
    /\ N <= (r + 1) * D
    /\ exact => N < (r + 1) * D

\* N/D rounded to the nearest integer, halves away from zero (N, D > 0)
RoundedOf(N, D) == (2 * N + D) \div (2 * D)

\* a scale k/10 that float64 holds exactly
ScaleExact == dimIn.opts.Scale.n % 5 = 0

NoScale == dimIn.opts.Scale = Lit(0, 1)
OnlyWidth == NoScale /\ dimIn.opts.Width > 0 /\ dimIn.opts.Height = 0
OnlyHeight == NoScale /\ dimIn.opts.Height > 0 /\ dimIn.opts.Width = 0

\* C4 (as claimed): with only Width = W the result is W and a height less than
\* one pixel from W*h/w; with only Height = H it is H and a width less than one
\* pixel from H*w/h.
CexC4_AspectWithinOnePixel ==
    /\ (DimsDone /\ OnlyWidth) =>
          /\ resolved[1] = dimIn.opts.Width
          /\ Abs(resolved[2] * (dimIn.origHeight.d * dimIn.origWidth.n)
                  - dimIn.opts.Width * dimIn.origHeight.n * dimIn.origWidth.d)
                < dimIn.origHeight.d * dimIn.origWidth.n
    /\ (DimsDone /\ OnlyHeight) =>
          /\ resolved[2] = dimIn.opts.Height
          /\ Abs(resolved[1] * (dimIn.origWidth.d * dimIn.origHeight.n)
                  - dimIn.opts.Height * dimIn.origWidth.n * dimIn.origHeight.d)
                < dimIn.origWidth.d * dimIn.origHeight.n

(***************************************************************************)
(* Config: SetDefaults, Validate, and the helpers of a run.                *)
(***************************************************************************)
SortByName == "name"
SortByCTime == "ctime"
SortManual == "manual"

\* Config.SetDefaults
SetDefaults(c) ==
    [c EXCEPT
        !.Scale = IF FIsZero(ToFloat(c.Scale)) /\ c.Width = 0 /\ c.Height = 0
                  THEN Lit(1, 1) ELSE @,
        !.Sort = IF @ = "" THEN SortByName ELSE @,
        !.Converter = IF @ = "" THEN ConverterOkSVG ELSE @,
        !.TileWidth = IF @ = 0 THEN 64 ELSE @,
        !.TileHeight = IF @ = 0 THEN 64 ELSE @,
        !.Cols = IF c.Cols = 0 /\ c.Rows = 0 THEN 8 ELSE @]

\* the cases of Validate's converter switch
ValidConverter(converter) ==
    converter \in {ConverterOkSVG, ConverterRod, ConverterRSVG}

\* Validate's checks of scale, width and height
ScaleAndSizeError(c) ==
    IF FNeZero(ToFloat(c.Scale)) /\ (c.Width # 0 \/ c.Height # 0)
    THEN Error("cannot specify both scale and width/height")
    ELSE IF FLtZero(ToFloat(c.Scale)) THEN Error("scale must be positive")
    ELSE IF c.Width < 0 \/ c.Height < 0
    THEN Error("width and height must be positive")
    ELSE Nil

\* Config.Validate: the error, or Nil
Validate(c) ==
    IF c.Input = "" THEN Error("input path is required")
    ELSE IF c.Output = "" THEN Error("output path is required")
    ELSE IF ScaleAndSizeError(c) # Nil THEN ScaleAndSizeError(c)
    ELSE IF c.TileWidth < 0 \/ c.TileHeight < 0
    THEN Error("tile dimensions must be positive")
    ELSE IF c.Cols < 0 \/ c.Rows < 0 THEN Error("cols and rows must be positive")
    ELSE IF c.Cols > 0 /\ c.Rows > 0 THEN Error("cannot specify both cols and rows")
    ELSE IF c.Padding < 0 THEN Error("padding must be non-negative")
    ELSE IF c.Sort # "" /\ c.Sort \notin {SortByName, SortByCTime, SortManual}
    THEN Error("invalid sort mode")
    ELSE IF c.Converter # "" /\ ~ValidConverter(c.Converter)
    THEN Error("invalid converter")
    ELSE Nil

\* filepath.Ext: the suffix from the last dot of the last path element
RECURSIVE ExtFrom(_, _)
ExtFrom(path, i) ==
    IF i < 1 \/ SubSeq(path, i, i) = "/" THEN ""
    ELSE IF SubSeq(path, i, i) = "." THEN SubSeq(path, i, Len(path))
    ELSE ExtFrom(path, i - 1)
Ext(path) == ExtFrom(path, Len(path))

\* Config.IsSVGInput
IsSVGInput(c) == Ext(c.Input) = ".svg"

\* NewConversionOptions
NewConversionOptions(c) ==
    [Scale |-> ToFloat(c.Scale), Width |-> c.Width, Height |-> c.Height,
     Verbose |-> c.Verbose]

(***************************************************************************)
(* SpecRun: one run of runSvg2Sheet on a single input file.  What the run  *)
(* reads from the host (the file system, the installed tools, the source's *)
(* intrinsic size) is chosen when it is read.                              *)
(***************************************************************************)
FlagSets ==
    [Input : {"", "icon.svg", "tile.png"}, Output : {"", "out.png"},
     Scale : {Lit(0, 1), LitNaN, Lit(-5, 10), Lit(5, 10), Lit(2, 1)},
     Width : {-1, 0, 3}, Height : {-1, 0, 3},
     TileWidth : {0}, TileHeight : {0}, Cols : {0, 3}, Rows : {0, 2},
     Padding : {0}, Sort : {"", "newest"}, Meta : {""}, Trim : {FALSE},
     Force : BOOLEAN, Verbose : {FALSE},
     Converter : {"", ConverterOkSVG, ConverterRod, ConverterRSVG,
                  ConverterInkscape, "svg"}]

\* intrinsic sizes a backend may find in the source
RunSrcLits == {Lit(1, 2), Lit(1, 1), Lit(7, 1)}

ConfigurationError(err) == [kind |-> "configuration error", msg |-> err.msg]
Rendered(by, dims) ==
    [op |-> "rendered", by |-> by, width |-> dims[1], height |-> dims[2]]

InitRun ==
    /\ flags \in FlagSets
    /\ cfg = flags
    /\ pc = "start"
    /\ runErr = Nil
    /\ backend = Nil
    /\ rendered = None
    /\ runHost = [launched |-> 0, closed |-> 0]
    /\ DimsIdle /\ RegistryIdle /\ ProbeIdle /\ QueryIdle /\ RodIdle /\ ImageIdle /\ SheetIdle
    /\ BatchIdle

\* runSvg2Sheet: cfg.SetDefaults() and cfg.Validate()
RunValidate ==
    /\ pc = "start"
    /\ cfg' = SetDefaults(cfg)
    /\ IF Validate(cfg') # Nil
       THEN runErr' = ConfigurationError(Validate(cfg')) /\ pc' = "done"
       ELSE runErr' = runErr /\ pc' = "stat"
    /\ UNCHANGED <<flags, backend, rendered, runHost, notRun>>

\* runSvg2Sheet: the two os.Stat checks
RunStat ==
    /\ pc = "stat"
    /\ \E inputExists \in BOOLEAN, outputExists \in BOOLEAN :
          IF ~inputExists
          THEN runErr' = Error("input path does not exist") /\ pc' = "done"
          ELSE IF outputExists /\ ~cfg.Force
          THEN runErr' = Error("output file already exists") /\ pc' = "done"
          ELSE runErr' = runErr /\ pc' = "processor"
    /\ UNCHANGED <<flags, cfg, backend, rendered, runHost, notRun>>

\* executeOperation: NewProcessor, NewConverter, registry.Create
RunNewProcessor ==
    /\ pc = "processor"
    /\ \E env \in Envs :
          LET r == Create(cfg.Converter, NewConversionOptions(cfg), env)
          IN  IF r.err # Nil
              THEN /\ runErr' = [kind |-> "failed to create processor", cause |-> r.err]
                   /\ backend' = backend
                   /\ pc' = "done"
              ELSE /\ runErr' = runErr
                   /\ backend' = r.converter
                   /\ pc' = "process"
    /\ UNCHANGED <<flags, cfg, rendered, runHost, notRun>>

\* Process: os.Stat of the input, then the directory or the file branch
RunProcess ==
    /\ pc = "process"
    /\ \E stat \in {"error", "directory", "file"} :
          IF stat = "error"
          THEN runErr' = Error("failed to stat input") /\ pc' = "done"
          ELSE runErr' = runErr /\ pc' = stat
    /\ UNCHANGED <<flags, cfg, backend, rendered, runHost, notRun>>

\* the backend's ConvertFile: it finds the source's intrinsic size, resolves
\* the target size with CalculateDimensions and rasterizes (or runs its
\* tool) at that size; or it fails before (the source cannot be read or
\* parsed) or after (the tool fails, the PNG cannot be written)
ConvertFile(converter, origWidth, origHeight) ==
    Rendered(converter.type,
             CalculateDimensions(converter.options, ToFloat(origWidth),
                                 ToFloat(origHeight)))

\* the browsers launched once the rod converter's ConvertFile has called
\* initBrowser with launcher.Launch() succeeding; the other converters launch
\* none
LaunchedBy(converter, host, launched) ==
    IF converter.type = ConverterRod /\ launched
    THEN [host EXCEPT !.launched = @ + 1]
    ELSE host

\* processFile
RunProcessFile ==
    /\ pc = "file"
    /\ pc' = "done"
    /\ \/ /\ ~IsSVGInput(cfg)
          /\ runErr' = Error("single file input must be an SVG file")
          /\ rendered' = rendered
          /\ runHost' = runHost
       \/ /\ IsSVGInput(cfg)
          /\ runErr' = Error("failed to read or parse the SVG")
          /\ rendered' = rendered
          /\ \E launched \in BOOLEAN : runHost' = LaunchedBy(backend, runHost, launched)
       \/ /\ IsSVGInput(cfg)
          /\ \E origWidth \in RunSrcLits, origHeight \in RunSrcLits :
                rendered' = ConvertFile(backend, origWidth, origHeight)
          /\ \E failed \in BOOLEAN :
                runErr' = IF failed THEN Error("failed to render or save") ELSE Nil
          /\ runHost' = LaunchedBy(backend, runHost, TRUE)
    /\ UNCHANGED <<flags, cfg, backend, notRun>>

\* processDirectory, up to the first ConvertFile of generateSpritesheet or
\* convertFiles: the files of the directory cannot be listed, or none is an
\* .svg or .png, or the first .svg is converted
RunProcessDirectory ==
    /\ pc = "directory"
    /\ pc' = "done"
    /\ \/ /\ \E msg \in {"failed to get input files",
                         "no valid input files found in directory"} :
                runErr' = Error(msg)
          /\ rendered' = rendered
          /\ runHost' = runHost
       \/ /\ \E origWidth \in RunSrcLits, origHeight \in RunSrcLits :
                rendered' = ConvertFile(backend, origWidth, origHeight)
          /\ \E failed \in BOOLEAN :
                runErr' = IF failed THEN Error("failed to convert or to generate") ELSE Nil
          /\ runHost' = LaunchedBy(backend, runHost, TRUE)
    /\ UNCHANGED <<flags, cfg, backend, notRun>>

NextRun ==
    \/ RunValidate
    \/ RunStat
    \/ RunNewProcessor
    \/ RunProcess
    \/ RunProcessFile
    \/ RunProcessDirectory

SpecRun == InitRun /\ [][NextRun]_vars

(***************************************************************************)
(* Claims about a run                                                      *)
(***************************************************************************)
Validated == pc # "start"
InvalidConverter == ConfigurationError(Error("invalid converter"))

\* C2 (as claimed): once the configuration has been validated, a run whose
\* --converter names one of the four registered backends has not been
\* rejected as an invalid converter, and a run whose --converter is any other
\* non-empty identifier has ended with a configuration error.
CexC2_ValidateAcceptsRegistered ==
    Validated =>
        /\ flags.Converter \in RegisteredTypes => runErr # InvalidConverter
        /\ flags.Converter \notin RegisteredTypes \cup {""} =>
              runErr.kind = "configuration error"

\* C5 (as claimed): whenever a backend has rasterized or run its external
\* tool, the width and the height it used are both greater than 0.
CexC5_NoRenderAtNonPositiveSize ==
    rendered.op = "rendered" => rendered.width > 0 /\ rendered.height > 0

\* C6 (as claimed): the options of every converter a run has created satisfy
\* Scale >= 0, Width >= 0, Height >= 0, and Scale > 0 only with Width and
\* Height both 0.
CexC6_OptionsInvariant ==
    backend # Nil =>
        /\ FGeZero(backend.options.Scale)
        /\ backend.options.Width >= 0
        /\ backend.options.Height >= 0
        /\ FGtZero(backend.options.Scale) =>
              backend.options.Width = 0 /\ backend.options.Height = 0

\* C13 (as claimed): when a run has returned, every browser it launched has
\* been closed.
CexC13_BrowserReleased ==
    pc = "done" => runHost.closed = runHost.launched

(***************************************************************************)
(* Text: the functions of Go's strings, strconv and fmt that the text      *)
(* probe and the dimension query use, over strings of characters.          *)
(* Offsets are 0-based as in Go; -1 is "not found".                        *)
(***************************************************************************)
Slice(s, i, j) == SubSeq(s, i + 1, j)          \* s[i:j]
SliceFrom(s, i) == SubSeq(s, i + 1, Len(s))    \* s[i:]
CharAt(s, i) == SubSeq(s, i + 1, i + 1)        \* s[i]

\* strings.Index: the offset of the first occurrence
Index(s, substr) ==
    LET at == {i \in 0 .. Len(s) - Len(substr) : Slice(s, i, i + Len(substr)) = substr}
    IN  IF at = {} THEN -1 ELSE CHOOSE i \in at : \A j \in at : i <= j

\* strings.HasSuffix, strings.TrimSuffix
HasSuffix(s, suffix) ==
    Len(s) >= Len(suffix) /\ SliceFrom(s, Len(s) - Len(suffix)) = suffix
TrimSuffix(s, suffix) ==
    IF HasSuffix(s, suffix) THEN Slice(s, 0, Len(s) - Len(suffix)) ELSE s

\* unicode.IsSpace, on the characters of the inputs
IsSpace(ch) == ch \in {" ", "\t", "\n", "\r"}

\* strings.Fields
RECURSIVE FieldsFrom(_, _, _)
FieldsFrom(s, i, field) ==
    LET done == IF field = "" THEN <<>> ELSE <<field>> IN
    IF i >= Len(s) THEN done
    ELSE IF IsSpace(CharAt(s, i)) THEN done \o FieldsFrom(s, i + 1, "")
    ELSE FieldsFrom(s, i + 1, field \o CharAt(s, i))
Fields(s) == FieldsFrom(s, 0, "")

\* strings.TrimSpace
RECURSIVE TrimSpace(_)
TrimSpace(s) ==
    IF s = "" THEN s
    ELSE IF IsSpace(CharAt(s, 0)) THEN TrimSpace(SliceFrom(s, 1))
    ELSE IF IsSpace(CharAt(s, Len(s) - 1)) THEN TrimSpace(Slice(s, 0, Len(s) - 1))
    ELSE s

\* strings.Split(s, "\n")
RECURSIVE SplitLines(_)
SplitLines(s) ==
    LET i == Index(s, "\n") IN
    IF i = -1 THEN <<s>>
    ELSE <<Slice(s, 0, i)>> \o SplitLines(SliceFrom(s, i + 1))

DecimalDigits == {"0", "1", "2", "3", "4", "5", "6", "7", "8", "9"}
HexadecimalDigits == DecimalDigits \cup {"a", "b", "c", "d", "e", "f",
                                         "A", "B", "C", "D", "E", "F"}
Sign == {"+", "-"}
DigitValue(ch) ==
    CASE ch = "0" -> 0 [] ch = "1" -> 1 [] ch = "2" -> 2 [] ch = "3" -> 3
      [] ch = "4" -> 4 [] ch = "5" -> 5 [] ch = "6" -> 6 [] ch = "7" -> 7
      [] ch = "8" -> 8 [] ch = "9" -> 9

\* the value and error a conversion returns; the float64 value is kept as the
\* decimal it is the nearest to (ToFloat gives its bits)
Parsed(value) == [value |-> value, err |-> Nil]
ParseError(msg) == [value |-> Lit(0, 1), err |-> Error(msg)]

\* the readFloat part of strconv.ParseFloat: digits [ . digits ], as n / d
RECURSIVE ReadDecimal(_, _, _, _, _)
ReadDecimal(s, i, n, d, sawDot) ==
    IF i >= Len(s) THEN Lit(n, d)
    ELSE IF CharAt(s, i) = "." THEN ReadDecimal(s, i + 1, n, d, TRUE)
    ELSE ReadDecimal(s, i + 1, 10 * n + DigitValue(CharAt(s, i)),
                     IF sawDot THEN 10 * d ELSE d, sawDot)

IsDecimal(s) ==
    /\ \A i \in 0 .. Len(s) - 1 : CharAt(s, i) \in DecimalDigits \cup {"."}
    /\ \E i \in 0 .. Len(s) - 1 : CharAt(s, i) \in DecimalDigits
    /\ Cardinality({i \in 0 .. Len(s) - 1 : CharAt(s, i) = "."}) <= 1

\* strconv.ParseFloat(s, 64) on decimal notation and NaN; the inputs of the
\* model hold no exponent, hexadecimal or infinity
ParseFloat(s) ==
    LET signed == s # "" /\ CharAt(s, 0) \in Sign
        body == IF signed THEN SliceFrom(s, 1) ELSE s
        mag == ReadDecimal(body, 0, 0, 1, FALSE)
    IN  IF body \in {"nan", "NaN", "NAN"} THEN Parsed(LitNaN)
        ELSE IF ~IsDecimal(body) THEN ParseError("invalid syntax")
        ELSE Parsed(IF signed /\ CharAt(s, 0) = "-"
                    THEN Lit(-mag.n, mag.d) ELSE mag)

\* fmt's ss.accept, by offset: whether s[i] is one of ok
Accept(s, i, ok) == i < Len(s) /\ CharAt(s, i) \in ok
\* for s.accept(ok) {}: the offset after the run
RECURSIVE AcceptAll(_, _, _)
AcceptAll(s, i, ok) == IF Accept(s, i, ok) THEN AcceptAll(s, i + 1, ok) ELSE i
\* s.accept(a) && s.accept(b) && s.accept(c): the offset it stops at; what it
\* accepted stays consumed
AcceptThree(s, i, a, b, c) ==
    IF ~Accept(s, i, a) THEN i
    ELSE IF ~Accept(s, i + 1, b) THEN i + 1
    ELSE IF ~Accept(s, i + 2, c) THEN i + 2
    ELSE i + 3

\* s.accept(ok): the offset after it
AcceptOne(s, i, ok) == IF Accept(s, i, ok) THEN i + 1 ELSE i

\* fmt's ss.floatToken from the exponent on
TokenExponent(s, i, exp) ==
    IF Accept(s, i, exp)
    THEN AcceptAll(s, AcceptOne(s, i + 1, Sign), DecimalDigits \cup {"_"})
    ELSE i

\* fmt's ss.floatToken from the decimal point on
TokenFraction(s, i, digits, exp) ==
    TokenExponent(s, IF Accept(s, i, {"."}) THEN AcceptAll(s, i + 1, digits) ELSE i,
                  exp)

\* fmt's ss.floatToken from the digits on
TokenDigits(s, i) ==
    IF Accept(s, i, {"0"}) /\ Accept(s, i + 1, {"x", "X"})
    THEN TokenFraction(s, AcceptAll(s, i + 2, HexadecimalDigits \cup {"_"}),
                       HexadecimalDigits \cup {"_"}, {"p", "P"})
    ELSE TokenFraction(s, AcceptAll(s, i, DecimalDigits \cup {"_"}),
                       DecimalDigits \cup {"_"}, {"e", "E", "p", "P"})

\* fmt's ss.floatToken after the sign: Inf, or the digits
TokenInf(s, i) ==
    IF AcceptThree(s, i, {"i", "I"}, {"n", "N"}, {"f", "F"}) = i + 3 THEN i + 3
    ELSE TokenDigits(s, AcceptThree(s, i, {"i", "I"}, {"n", "N"}, {"f", "F"}))

\* fmt's ss.floatToken: the offset after the token that starts at 0
floatToken(s) ==
    IF AcceptThree(s, 0, {"n", "N"}, {"a", "A"}, {"n", "N"}) = 3 THEN 3
    ELSE TokenInf(s, AcceptOne(s, AcceptThree(s, 0, {"n", "N"}, {"a", "A"}, {"n", "N"}),
                               Sign))

\* fmt's ss.SkipSpace for Sscanf: the offset of the first character that is
\* no blank, or -1 where a newline comes first
RECURSIVE SkipSpace(_, _)
SkipSpace(s, i) ==
    IF i >= Len(s) THEN i
    ELSE IF CharAt(s, i) = "\n" THEN -1
    ELSE IF IsSpace(CharAt(s, i)) THEN SkipSpace(s, i + 1)
    ELSE i

\* the %f verb on the input from offset start
ScanFloat(s, start) ==
    IF start = -1 THEN ParseError("unexpected newline")
    ELSE IF start >= Len(s) THEN ParseError("unexpected EOF")
    ELSE ParseFloat(Slice(s, start, start + floatToken(SliceFrom(s, start))))

\* fmt.Sscanf(s, "%f", &result): input after the token is left unread
Sscanf(s) == ScanFloat(s, SkipSpace(s, 0))

(***************************************************************************)
(* The text probe: parseSVGDimensions of the rod and rsvg converters.      *)
(***************************************************************************)
\* parseFloatRod
parseFloatRod(s) ==
    Sscanf(TrimSuffix(TrimSuffix(TrimSuffix(TrimSuffix(s, "px"), "pt"), "em"), "rem"))

\* parseFloatRSVG
parseFloatRSVG(s) ==
    Sscanf(TrimSuffix(TrimSuffix(TrimSuffix(TrimSuffix(s, "px"), "pt"), "em"), "rem"))

\* the parseFloat of the converter whose parseSVGDimensions is running
parseFloat(converter, s) ==
    CASE converter = ConverterRod -> parseFloatRod(s)
      [] converter = ConverterRSVG -> parseFloatRSVG(s)

\* the first quoted text after key, as a sequence of one text or none
QuotedAfter(svgStr, key) ==
    LET keyStart == Index(svgStr, key)
        start == keyStart + Len(key)
        end == Index(SliceFrom(svgStr, start), "\"")
    IN  IF keyStart = -1 \/ end = -1 THEN <<>>
        ELSE <<Slice(svgStr, start, start + end)>>

\* parseSVGDimensions, the viewBox block: width and height after it
ViewBoxDimensions(converter, svgStr, width, height) ==
    LET viewBox == QuotedAfter(svgStr, "viewBox=\"")
        parts == Fields(viewBox[1])
        w == parseFloat(converter, parts[3])
        h == parseFloat(converter, parts[4])
    IN  IF viewBox = <<>> \/ Len(parts) < 4 THEN <<width, height>>
        ELSE <<IF w.err = Nil THEN w.value ELSE width,
               IF h.err = Nil THEN h.value ELSE height>>

\* parseSVGDimensions, a width or height block: the dimension after it
AttributeDimension(converter, svgStr, key, dimension) ==
    LET text == QuotedAfter(svgStr, key)
        v == parseFloat(converter, text[1])
    IN  IF text = <<>> \/ v.err # Nil THEN dimension ELSE v.value

\* parseSVGDimensions of the rod converter and of the rsvg converter, which
\* differ in the parseFloat they call
parseSVGDimensions(converter, svgStr) ==
    LET byViewBox == ViewBoxDimensions(converter, svgStr, Lit(100, 1), Lit(100, 1))
    IN  [width |-> AttributeDimension(converter, svgStr, "width=\"", byViewBox[1]),
         height |-> AttributeDimension(converter, svgStr, "height=\"", byViewBox[2]),
         err |-> Nil]

(***************************************************************************)
(* SpecProbe: parseSVGDimensions applied to SVG sources.  A source is the  *)
(* root element's declarations, each with the text it is written as and    *)
(* the value that text denotes (Nil where it denotes none), and SvgText    *)
(* writes the source out.                                                  *)
(***************************************************************************)
Length(text, value) == [text |-> text, value |-> value]
WidthDecls ==
    {Length("200", Lit(200, 1)), Length("48px", Lit(48, 1)),
     Length("1.5em", Lit(15, 10)), Length("2rem", Lit(2, 1)),
     Length("auto", Nil)}
HeightDecls ==
    {Length("50", Lit(50, 1)), Length("12pt", Lit(12, 1)), Length("auto", Nil)}
ViewBox(text, width, height) == [text |-> text, width |-> width, height |-> height]
ViewBoxDecls ==
    {ViewBox("0 0 24 12", Lit(24, 1), Lit(12, 1)),
     ViewBox("0  0 7.5 30", Lit(75, 10), Lit(30, 1)),
     ViewBox("0 0 24", Nil, Nil)}
Sources ==
    [viewBox : ViewBoxDecls \cup {Nil}, width : WidthDecls \cup {Nil},
     height : HeightDecls \cup {Nil}, viewBoxFirst : BOOLEAN,
     strokeWidth : BOOLEAN]

Attribute(name, decl) ==
    IF decl = Nil THEN "" ELSE " " \o name \o "=\"" \o decl.text \o "\""
SvgText(src) ==
    "<svg"
    \o (IF src.strokeWidth THEN " stroke-width=\"2\"" ELSE "")
    \o (IF src.viewBoxFirst THEN Attribute("viewBox", src.viewBox) ELSE "")
    \o Attribute("width", src.width) \o Attribute("height", src.height)
    \o (IF src.viewBoxFirst THEN "" ELSE Attribute("viewBox", src.viewBox))
    \o "><path d=\"M0 0h9v9z\"/></svg>"

InitProbe ==
    /\ probeIn \in Sources
    /\ probeOut = None
    /\ DimsIdle /\ RegistryIdle /\ RunIdle /\ QueryIdle /\ RodIdle /\ ImageIdle /\ SheetIdle
    /\ BatchIdle

Probed(by, r) == [op |-> "returned", by |-> by, result |-> r]

\* RodConverter.parseSVGDimensions(svgData)
RodParseSVGDimensions ==
    /\ probeOut = None
    /\ probeOut' = Probed(ConverterRod, parseSVGDimensions(ConverterRod, SvgText(probeIn)))
    /\ UNCHANGED <<probeIn, notProbe>>

\* RSVGConverter.parseSVGDimensions(svgData)
RSVGParseSVGDimensions ==
    /\ probeOut = None
    /\ probeOut' = Probed(ConverterRSVG, parseSVGDimensions(ConverterRSVG, SvgText(probeIn)))
    /\ UNCHANGED <<probeIn, notProbe>>

NextProbe == RodParseSVGDimensions \/ RSVGParseSVGDimensions

SpecProbe == InitProbe /\ [][NextProbe]_vars

(***************************************************************************)
(* Claims about the text probe                                             *)
(***************************************************************************)
ProbeDone == probeOut.op = "returned"
probed == probeOut.result
Hundred == Lit(100, 1)
HasViewBox == probeIn.viewBox # Nil /\ probeIn.viewBox.width # Nil
HasWidth == probeIn.width # Nil /\ probeIn.width.value # Nil
HasHeight == probeIn.height # Nil /\ probeIn.height.value # Nil

\* C7 (as claimed): for a source that declares a parseable viewBox and
\* parseable width and height attributes, parseSVGDimensions returns the
\* viewBox's width and height.
CexC7_ViewBoxPreferred ==
    ProbeDone /\ HasViewBox /\ HasWidth /\ HasHeight =>
        /\ ToFloat(probed.width) = ToFloat(probeIn.viewBox.width)
        /\ ToFloat(probed.height) = ToFloat(probeIn.viewBox.height)

\* C8 (as claimed): parseSVGDimensions returns no error; it returns 100 x 100
\* for a source with no parseable viewBox and no parseable width or height
\* attribute; and a dimension that neither its attribute nor the viewBox
\* gives keeps 100.
CexC8_LenientDefaults ==
    ProbeDone =>
        /\ probed.err = Nil
        /\ ~HasViewBox /\ ~HasWidth /\ ~HasHeight =>
              probed.width = Hundred /\ probed.height = Hundred
        /\ ~HasViewBox /\ ~HasWidth => probed.width = Hundred
        /\ ~HasViewBox /\ ~HasHeight => probed.height = Hundred

(***************************************************************************)
(* The dimension query of the external-command backends.                   *)
(***************************************************************************)
Dimensions(width, height, err) == [width |-> width, height |-> height, err |-> err]

\* RSVGConverter.parseSVGDimensionsFromFile
parseSVGDimensionsFromFile(file) ==
    IF ~file.readable THEN Dimensions(Hundred, Hundred, Nil)
    ELSE parseSVGDimensions(ConverterRSVG, file.data)

\* RSVGConverter.getSVGDimensionsAlternative
getSVGDimensionsAlternative(file, started) ==
    IF ~started THEN Dimensions(Hundred, Hundred, Nil)
    ELSE parseSVGDimensionsFromFile(file)

\* RSVGConverter.getSVGDimensions; cmd is how the query command ended
RSVGGetSVGDimensions(file, cmd, started) ==
    LET lines == SplitLines(TrimSpace(cmd.output))
        width == ParseFloat(TrimSpace(lines[1]))
        height == ParseFloat(TrimSpace(lines[2]))
    IN  IF cmd.err # Nil THEN getSVGDimensionsAlternative(file, started)
        ELSE IF Len(lines) < 2 THEN getSVGDimensionsAlternative(file, started)
        ELSE IF width.err # Nil THEN getSVGDimensionsAlternative(file, started)
        ELSE IF height.err # Nil THEN getSVGDimensionsAlternative(file, started)
        ELSE Dimensions(width.value, height.value, Nil)

\* InkscapeConverter.getSVGDimensions
InkscapeGetSVGDimensions(file, cmd) ==
    LET lines == SplitLines(TrimSpace(cmd.output))
        width == ParseFloat(TrimSpace(lines[1]))
        height == ParseFloat(TrimSpace(lines[2]))
    IN  IF cmd.err # Nil
        THEN Dimensions(Lit(0, 1), Lit(0, 1), Error("failed to query SVG dimensions"))
        ELSE IF Len(lines) < 2
        THEN Dimensions(Lit(0, 1), Lit(0, 1), Error("unexpected output from inkscape query"))
        ELSE IF width.err # Nil
        THEN Dimensions(Lit(0, 1), Lit(0, 1), Error("failed to parse width"))
        ELSE IF height.err # Nil
        THEN Dimensions(Lit(0, 1), Lit(0, 1), Error("failed to parse height"))
        ELSE Dimensions(width.value, height.value, Nil)

(***************************************************************************)
(* SpecQuery: getSVGDimensions of the two backends on an SVG file, with    *)
(* the query command ending in each of the ways it can.                    *)
(***************************************************************************)
QuerySources ==
    {src \in Sources : src.viewBoxFirst /\ ~src.strokeWidth
                       /\ (src.viewBox = Nil \/ src.viewBox.width # Nil)}
Files == {[readable |-> r, data |-> SvgText(src)] : r \in BOOLEAN, src \in QuerySources}

Exited(err, output) == [err |-> err, output |-> output]
Commands ==
    {Exited(Error("exit status 1"), ""), Exited(Nil, ""), Exited(Nil, "48\n"),
     Exited(Nil, "48\n24\n"), Exited(Nil, " 7.5\n 30 \n\n"),
     Exited(Nil, "48\nunknown\n"), Exited(Nil, "Gtk-WARNING\n24\n")}

InitQuery ==
    /\ queryIn \in Files
    /\ queryOut = None
    /\ DimsIdle /\ RegistryIdle /\ RunIdle /\ ProbeIdle /\ RodIdle /\ ImageIdle /\ SheetIdle
    /\ BatchIdle

Queried(by, cmd, started, r) ==
    [op |-> "returned", by |-> by, cmd |-> cmd, started |-> started, result |-> r]

\* a call of RSVGConverter.getSVGDimensions(svgPath)
QueryRSVG ==
    /\ queryOut = None
    /\ \E cmd \in Commands, started \in BOOLEAN :
          queryOut' = Queried(ConverterRSVG, cmd, started,
                              RSVGGetSVGDimensions(queryIn, cmd, started))
    /\ UNCHANGED <<queryIn, notQuery>>

\* a call of InkscapeConverter.getSVGDimensions(svgPath)
QueryInkscape ==
    /\ queryOut = None
    /\ \E cmd \in Commands :
          queryOut' = Queried(ConverterInkscape, cmd, TRUE,
                              InkscapeGetSVGDimensions(queryIn, cmd))
    /\ UNCHANGED <<queryIn, notQuery>>

NextQuery == QueryRSVG \/ QueryInkscape

SpecQuery == InitQuery /\ [][NextQuery]_vars

(***************************************************************************)
(* Claims about the dimension query                                        *)
(***************************************************************************)
QueryDone == queryOut.op = "returned"
\* the query exited non-zero, or its output has fewer than two lines or a
\* line that is no number
QueryFailed ==
    LET lines == SplitLines(TrimSpace(queryOut.cmd.output)) IN
    \/ queryOut.cmd.err # Nil
    \/ Len(lines) < 2
    \/ ParseFloat(TrimSpace(lines[1])).err # Nil
    \/ ParseFloat(TrimSpace(lines[2])).err # Nil

\* C9 (as claimed): when the query of rsvg or of inkscape fails or returns
\* unparsable output, getSVGDimensions of a readable source returns no error
\* and the size the text probe finds in the source's bytes.
CexC9_QueryFallsBackToText ==
    QueryDone /\ QueryFailed /\ queryIn.readable =>
        queryOut.result = parseSVGDimensions(ConverterRSVG, queryIn.data)

(***************************************************************************)
(* SpecRod: calls of RodConverter.ConvertToImage, step by step.  Every     *)
(* step that talks to the browser can fail; the Must methods of rod panic  *)
(* where the plain ones return an error.  A panic ends the call after the  *)
(* deferred page.MustClose has run, which can panic in turn.               *)
(***************************************************************************)
MaxCalls == 3

RodSources ==
    {src \in Sources : /\ src.viewBoxFirst /\ ~src.strokeWidth
                       /\ src.viewBox \in {Nil, ViewBox("0 0 24 12", Lit(24, 1), Lit(12, 1))}
                       /\ \/ src.width = Nil /\ src.height = Nil
                          \/ /\ src.width = Length("48px", Lit(48, 1))
                             /\ src.height = Length("12pt", Lit(12, 1))}
RodOptions == {[Scale |-> ToFloat(l), Width |-> 0, Height |-> 0, Verbose |-> FALSE] :
                 l \in {Lit(1, 1), Lit(5, 10)}}

\* the *rod.Browser connected to the id-th browser process launched
Browser(id) == [kind |-> "browser", id |-> id]
Image(width, height) == [kind |-> "image", width |-> width, height |-> height]
ReturnedImage(img) == [op |-> "returned", img |-> img, err |-> Nil]
ReturnedError(msg) == [op |-> "returned", img |-> Nil, err |-> Error(msg)]
Panicked(by) == [op |-> "panicked", by |-> by]
\* how a call that returns no image ended
Ended(call, err) == [op |-> "returned", call |-> call, err |-> err]

InitRod ==
    /\ rodConv \in {NewRodConverter(options) : options \in RodOptions}
    /\ rodSrc \in RodSources
    /\ rodPc = "idle"
    /\ rodFrame = None
    /\ rodOut = None
    /\ rodCalls = 0
    /\ rodHost = [launched |-> 0, closeCalls |-> 0]
    /\ DimsIdle /\ RegistryIdle /\ RunIdle /\ ProbeIdle /\ QueryIdle /\ ImageIdle /\ SheetIdle
    /\ BatchIdle

\* ConvertToImage up to the page, called by call: initBrowser (launcher.Launch
\* and browser.Connect where c.browser is nil), parseSVGDimensions,
\* CalculateDimensions
ConvertToImageEnter(call) ==
    \E launched \in BOOLEAN, connected \in BOOLEAN :
        LET orig == parseSVGDimensions(ConverterRod, SvgText(rodSrc))
            dims == CalculateDimensions(rodConv.options, ToFloat(orig.width),
                                        ToFloat(orig.height))
            launch == rodConv.browser = Nil /\ launched
        IN  /\ rodHost' = IF launch THEN [rodHost EXCEPT !.launched = @ + 1]
                          ELSE rodHost
            /\ IF rodConv.browser = Nil /\ ~(launched /\ connected)
               THEN /\ rodOut' = ReturnedError("failed to initialize browser")
                    /\ UNCHANGED <<rodConv, rodPc, rodFrame>>
               ELSE /\ rodConv' = IF launch
                                  THEN [rodConv EXCEPT !.browser = Browser(rodHost.launched + 1)]
                                  ELSE rodConv
                    /\ rodFrame' = [call |-> call, width |-> dims[1],
                                    height |-> dims[2], ending |-> None]
                    /\ rodPc' = "MustPage"
                    /\ rodOut' = None

\* a call of ConvertToImage
RodConvertToImage ==
    /\ rodPc = "idle"
    /\ rodCalls < MaxCalls
    /\ rodCalls' = rodCalls + 1
    /\ ConvertToImageEnter("ConvertToImage")
    /\ UNCHANGED <<rodSrc, notRod>>

\* a call of ConvertFile: os.ReadFile, then ConvertToImage
RodConvertFile ==
    /\ rodPc = "idle"
    /\ rodCalls < MaxCalls
    /\ rodCalls' = rodCalls + 1
    /\ \E readable \in BOOLEAN :
          IF readable THEN ConvertToImageEnter("ConvertFile")
          ELSE /\ rodOut' = Ended("ConvertFile", Error("failed to read SVG file"))
               /\ UNCHANGED <<rodConv, rodPc, rodFrame, rodHost>>
    /\ UNCHANGED <<rodSrc, notRod>>

\* a call of IsAvailable: launcher.New() and a look at its flags
RodCallIsAvailable ==
    /\ rodPc = "idle"
    /\ rodCalls < MaxCalls
    /\ rodCalls' = rodCalls + 1
    /\ \E found \in BOOLEAN :
          rodOut' = Ended("IsAvailable",
                          IF found THEN Nil
                          ELSE Error("Chrome/Chromium browser not found"))
    /\ UNCHANGED <<rodConv, rodSrc, rodPc, rodFrame, rodHost, notRod>>

\* a call of GetImageDimensions: os.ReadFile, parseSVGDimensions,
\* CalculateDimensions
RodGetImageDimensions ==
    /\ rodPc = "idle"
    /\ rodCalls < MaxCalls
    /\ rodCalls' = rodCalls + 1
    /\ \E readable \in BOOLEAN :
          rodOut' = Ended("GetImageDimensions",
                          IF readable THEN Nil ELSE Error("failed to read SVG file"))
    /\ UNCHANGED <<rodConv, rodSrc, rodPc, rodFrame, rodHost, notRod>>

\* a call of Close: c.browser.Close() where c.browser is not nil; c.browser
\* is left as it is
RodClose ==
    /\ rodPc = "idle"
    /\ rodCalls < MaxCalls
    /\ rodCalls' = rodCalls + 1
    /\ IF rodConv.browser # Nil
       THEN /\ rodHost' = [rodHost EXCEPT !.closeCalls = @ + 1]
            /\ \E closed \in BOOLEAN :
                  rodOut' = Ended("Close", IF closed THEN Nil
                                           ELSE Error("browser.Close failed"))
       ELSE /\ rodHost' = rodHost
            /\ rodOut' = Ended("Close", Nil)
    /\ UNCHANGED <<rodConv, rodSrc, rodPc, rodFrame, notRod>>

\* c.browser.MustPage() and defer page.MustClose()
RodMustPage ==
    /\ rodPc = "MustPage"
    /\ \E ok \in BOOLEAN :
          IF ok THEN rodPc' = "MustSetViewport" /\ rodOut' = rodOut
          ELSE rodPc' = "idle" /\ rodOut' = Panicked("MustPage")
    /\ UNCHANGED <<rodConv, rodSrc, rodFrame, rodCalls, rodHost, notRod>>

\* page.MustSetViewport(width, height, 1, false); on failure
\* the panic unwinds into the deferred call
RodMustSetViewport ==
    /\ rodPc = "MustSetViewport"
    /\ \E ok \in BOOLEAN :
          IF ok THEN rodPc' = "MustNavigate" /\ rodFrame' = rodFrame
          ELSE /\ rodPc' = "deferred"
               /\ rodFrame' = [rodFrame EXCEPT !.ending = Panicked("MustSetViewport")]
    /\ UNCHANGED <<rodConv, rodSrc, rodOut, rodCalls, rodHost, notRod>>

\* page.MustNavigate("data:text/html;charset=utf-8," + html); on failure
\* the panic unwinds into the deferred call
RodMustNavigate ==
    /\ rodPc = "MustNavigate"
    /\ \E ok \in BOOLEAN :
          IF ok THEN rodPc' = "MustWaitLoad" /\ rodFrame' = rodFrame
          ELSE /\ rodPc' = "deferred"
               /\ rodFrame' = [rodFrame EXCEPT !.ending = Panicked("MustNavigate")]
    /\ UNCHANGED <<rodConv, rodSrc, rodOut, rodCalls, rodHost, notRod>>

\* page.MustWaitLoad(); on failure
\* the panic unwinds into the deferred call
RodMustWaitLoad ==
    /\ rodPc = "MustWaitLoad"
    /\ \E ok \in BOOLEAN :
          IF ok THEN rodPc' = "Screenshot" /\ rodFrame' = rodFrame
          ELSE /\ rodPc' = "deferred"
               /\ rodFrame' = [rodFrame EXCEPT !.ending = Panicked("MustWaitLoad")]
    /\ UNCHANGED <<rodConv, rodSrc, rodOut, rodCalls, rodHost, notRod>>

\* page.Screenshot and png.Decode
RodScreenshot ==
    /\ rodPc = "Screenshot"
    /\ rodPc' = "deferred"
    /\ \E shot \in BOOLEAN, decoded \in BOOLEAN :
          rodFrame' = [rodFrame EXCEPT !.ending =
              IF ~shot THEN ReturnedError("failed to take screenshot")
              ELSE IF ~decoded THEN ReturnedError("failed to decode screenshot PNG")
              ELSE ReturnedImage(Image(rodFrame.width, rodFrame.height))]
    /\ UNCHANGED <<rodConv, rodSrc, rodOut, rodCalls, rodHost, notRod>>

\* the deferred page.MustClose(), and the end of ConvertToImage; ConvertFile
\* goes on to savePNG with the image
RodDeferredMustClose ==
    /\ rodPc = "deferred"
    /\ \E ok \in BOOLEAN :
          IF ok /\ rodFrame.call = "ConvertFile" /\ rodFrame.ending.op = "returned"
                /\ rodFrame.ending.err = Nil
          THEN rodPc' = "savePNG" /\ rodFrame' = rodFrame /\ rodOut' = rodOut
          ELSE /\ rodPc' = "idle"
               /\ rodFrame' = None
               /\ rodOut' = IF ok THEN rodFrame.ending ELSE Panicked("MustClose")
    /\ UNCHANGED <<rodConv, rodSrc, rodCalls, rodHost, notRod>>

\* ConvertFile: c.savePNG(img, outputPath)
RodSavePNG ==
    /\ rodPc = "savePNG"
    /\ rodPc' = "idle"
    /\ rodFrame' = None
    /\ \E saved \in BOOLEAN :
          rodOut' = Ended("ConvertFile", IF saved THEN Nil
                                         ELSE Error("failed to create output file"))
    /\ UNCHANGED <<rodConv, rodSrc, rodCalls, rodHost, notRod>>

NextRod ==
    \/ RodConvertToImage
    \/ RodConvertFile
    \/ RodCallIsAvailable
    \/ RodGetImageDimensions
    \/ RodClose
    \/ RodMustPage
    \/ RodMustSetViewport
    \/ RodMustNavigate
    \/ RodMustWaitLoad
    \/ RodScreenshot
    \/ RodDeferredMustClose
    \/ RodSavePNG

SpecRod == InitRod /\ [][NextRod]_vars

(***************************************************************************)
(* Claims about the browser backend                                        *)
(***************************************************************************)
\* C10 (as claimed): no call of the browser backend's ConvertToImage ends in
\* a panic.
CexC10_RodNeverPanics == rodOut.op # "panicked"

\* C11 (as claimed): a new RodConverter has launched no browser; a call of
\* IsAvailable or GetImageDimensions launches none; at most one launch ever
\* succeeds; and once the converter holds a browser, every later step keeps
\* that handle and launches nothing.
CexC11_LazyAtMostOnceBrowser ==
    /\ rodHost.launched = 0
    /\ [][/\ RodCallIsAvailable \/ RodGetImageDimensions =>
                rodHost'.launched = rodHost.launched
          /\ rodHost'.launched <= 1
          /\ rodConv.browser # Nil =>
                rodConv'.browser = rodConv.browser
                /\ rodHost'.launched = rodHost.launched]_vars

\* C12 (as claimed): Close on a converter that holds no browser returns nil
\* and calls nothing; a Close that follows a Close that returned nil returns
\* nil and does not call browser.Close again.
CexC12_CloseIdempotent ==
    [][RodClose =>
          /\ rodConv.browser = Nil =>
                rodOut'.err = Nil /\ rodHost' = rodHost
          /\ rodOut = Ended("Close", Nil) =>
                rodOut'.err = Nil /\ rodHost'.closeCalls = rodHost.closeCalls]_vars


(***************************************************************************)
(* Images.  An image has its Min at (0, 0), as png.Decode and image.NewRGBA *)
(* make them; a pixel is one colour channel v and the alpha a, 8 bits      *)
(* each, alpha-premultiplied in an *image.RGBA and not in an *image.NRGBA. *)
(***************************************************************************)
Pixel(v, a) == [v |-> v, a |-> a]

Points(w, h) == (0 .. w - 1) \X (0 .. h - 1)

\* image.NewRGBA(image.Rect(0, 0, w, h)): every pixel zero
NewRGBA(w, h) ==
    [kind |-> "RGBA", w |-> w, h |-> h, pix |-> [p \in Points(w, h) |-> Pixel(0, 0)]]

\* c.RGBA() of the colour img.At returns: 16-bit, alpha-premultiplied
RGBA(kind, c) ==
    IF kind = "NRGBA"
    THEN Pixel(((c.v * 257) * (c.a * 257)) \div 65535, c.a * 257)
    ELSE Pixel(c.v * 257, c.a * 257)

\* color.RGBAModel.Convert(c), what (*image.RGBA).Set stores
ConvertRGBA(kind, c) ==
    IF kind = "RGBA" THEN c
    ELSE Pixel(RGBA(kind, c).v \div 256, RGBA(kind, c).a \div 256)

Min(S) == CHOOSE x \in S : \A y \in S : x <= y
Max(S) == CHOOSE x \in S : \A y \in S : x >= y

\* TrimTransparent with the result's bounds not brought back to the origin:
\* image.Rect(0, 0, maxX+1, maxY+1)
TrimTransparentUnshifted(img) ==
    LET found == {p \in Points(img.w, img.h) : RGBA(img.kind, img.pix[p]).a > 0}
        minX  == Min({p[1] : p \in found})
        maxX  == Max({p[1] : p \in found})
        minY  == Min({p[2] : p \in found})
        maxY  == Max({p[2] : p \in found})
    IN  IF found = {} THEN NewRGBA(1, 1)
        ELSE [kind |-> "RGBA", w |-> maxX + 1, h |-> maxY + 1,
              pix |-> [p \in Points(maxX + 1, maxY + 1) |->
                         IF p[1] + minX <= maxX /\ p[2] + minY <= maxY
                         THEN ConvertRGBA(img.kind, img.pix[<<p[1] + minX, p[2] + minY>>])
                         ELSE Pixel(0, 0)]]

\* TrimTransparent: the scan keeps the least and greatest x and y of the
\* pixels with a > 0, then copies that rectangle with Set
TrimTransparent(img) ==
    LET found == {p \in Points(img.w, img.h) : RGBA(img.kind, img.pix[p]).a > 0}
        minX  == Min({p[1] : p \in found})
        maxX  == Max({p[1] : p \in found})
        minY  == Min({p[2] : p \in found})
        maxY  == Max({p[2] : p \in found})
    IN  IF found = {} THEN NewRGBA(1, 1)
        ELSE [kind |-> "RGBA", w |-> maxX - minX + 1, h |-> maxY - minY + 1,
              pix |-> [p \in Points(maxX - minX + 1, maxY - minY + 1) |->
                         ConvertRGBA(img.kind, img.pix[<<p[1] + minX, p[2] + minY>>])]]

\* the source coordinate ResizeImage samples for x (or y): int(float64(x) *
\* scale), clamped to the source
SampleAt(x, srcSize, size) ==
    LET scale == FDiv(FFromInt(srcSize), FFromInt(size))
        src   == FToInt(FMul(FFromInt(x), scale))
    IN  IF src >= srcSize THEN srcSize - 1 ELSE src

\* ResizeImage, for width > 0 and height > 0
ResizeImage(img, width, height) ==
    IF img.w = width /\ img.h = height THEN img
    ELSE [kind |-> "RGBA", w |-> width, h |-> height,
          pix |-> [p \in Points(width, height) |->
                     ConvertRGBA(img.kind,
                                 img.pix[<<SampleAt(p[1], img.w, width),
                                           SampleAt(p[2], img.h, height)>>])]]

\* processImage, without the resize
processImageUnresized(config, img) ==
    IF config.Trim THEN TrimTransparent(img) ELSE img

\* Generator.processImage
processImage(config, img) ==
    LET trimmed == IF config.Trim THEN TrimTransparent(img) ELSE img
    IN  IF trimmed.w # config.TileWidth \/ trimmed.h # config.TileHeight
        THEN ResizeImage(trimmed, config.TileWidth, config.TileHeight)
        ELSE trimmed

\* the ImageInfo loadImages appends for a processed image
ImageInfo(processedImg, name) ==
    [Image |-> processedImg, Filename |-> name,
     Width |-> processedImg.w, Height |-> processedImg.h]

\* decoded images: an NRGBA image has transparent pixels that keep a colour
\* and half-transparent ones, an RGBA image has zero and opaque pixels
Hidden(kind) == IF kind = "NRGBA" THEN Pixel(100, 0) ELSE Pixel(0, 0)
Visible(kind) == IF kind = "NRGBA" THEN Pixel(100, 128) ELSE Pixel(100, 255)

Decoded ==
    UNION {{[kind |-> kind, w |-> w, h |-> h,
             pix |-> [p \in Points(w, h) |->
                        IF p \in visible THEN Visible(kind) ELSE Hidden(kind)]] :
              visible \in {v \in SUBSET Points(w, h) : Cardinality(v) <= MaxVisible}} :
             <<kind, w, h>> \in {"NRGBA", "RGBA"} \X (1 .. MaxImage) \X (1 .. MaxImage)}

\* strips: one row of StripSrc pixels, one of them visible
Strips ==
    {[kind |-> kind, w |-> StripSrc, h |-> 1,
      pix |-> [p \in Points(StripSrc, 1) |->
                 IF p[1] = c THEN Visible(kind) ELSE Hidden(kind)]] :
       <<kind, c>> \in {"NRGBA", "RGBA"} \X (0 .. StripSrc - 1)}

ImageConfigs ==
    [Trim : BOOLEAN, TileWidth : 1 .. MaxTile, TileHeight : 1 .. MaxTile]
        \cup [Trim : BOOLEAN, TileWidth : {StripTile}, TileHeight : {1}]

InitImage ==
    /\ imgCfg \in ImageConfigs
    /\ imgSrc \in Decoded \cup Strips
    /\ imgTrims = <<>>
    /\ imgResized = None
    /\ imgInfo = None
    /\ DimsIdle /\ RegistryIdle /\ RunIdle /\ ProbeIdle /\ QueryIdle /\ RodIdle
    /\ SheetIdle /\ BatchIdle

\* utils.TrimTransparent on the decoded image, and then on its own result
ImageTrimTransparent ==
    /\ Len(imgTrims) < 2
    /\ imgTrims' = Append(imgTrims,
                          TrimTransparent(IF imgTrims = <<>> THEN imgSrc
                                          ELSE imgTrims[Len(imgTrims)]))
    /\ UNCHANGED <<imgCfg, imgSrc, imgResized, imgInfo, notImage>>

\* utils.ResizeImage of the decoded image to the tile size
ImageResizeImage ==
    /\ imgResized = None
    /\ imgResized' = ResizeImage(imgSrc, imgCfg.TileWidth, imgCfg.TileHeight)
    /\ UNCHANGED <<imgCfg, imgSrc, imgTrims, imgInfo, notImage>>

\* one turn of the loop of loadImages
ImageLoadImages ==
    /\ imgInfo = None
    /\ imgInfo' = ImageInfo(processImage(imgCfg, imgSrc), "icon")
    /\ UNCHANGED <<imgCfg, imgSrc, imgTrims, imgResized, notImage>>

NextImage == ImageTrimTransparent \/ ImageResizeImage \/ ImageLoadImages

SpecImage == InitImage /\ [][NextImage]_vars


(***************************************************************************)
(* The spritesheet generator: Generate, loadImages, calculateLayout,       *)
(* createSpritesheet, saveSpritesheet.                                     *)
(***************************************************************************)

\* int(math.Floor(float64(a) / float64(b))), in the place of the ceiling
FloorOfQuotient(a, b) == FToInt(FFloor(FDiv(FFromInt(a), FFromInt(b))))

\* int(math.Ceil(float64(a) / float64(b)))
CeilOfQuotient(a, b) == FToInt(FCeil(FDiv(FFromInt(a), FFromInt(b))))

\* the Layout of a grid of cols x rows
Layout(config, cols, rows) ==
    [Cols |-> cols, Rows |-> rows,
     TileWidth |-> config.TileWidth, TileHeight |-> config.TileHeight,
     Padding |-> config.Padding,
     Width |-> cols * config.TileWidth + (cols - 1) * config.Padding,
     Height |-> rows * config.TileHeight + (rows - 1) * config.Padding]

\* calculateLayout with the rows taken as int(imageCount / cols) + 1
calculateLayoutExtraRow(config, imageCount) ==
    LET cols == IF config.Cols > 0 THEN config.Cols
                ELSE IF config.Rows > 0 THEN CeilOfQuotient(imageCount, config.Rows)
                ELSE FToInt(FCeil(FSqrt(FFromInt(imageCount))))
        rows == IF config.Cols = 0 /\ config.Rows > 0 THEN config.Rows
                ELSE (imageCount \div cols) + 1
    IN  Layout(config, cols, rows)

\* calculateLayout with the padding left out of the width and the height
calculateLayoutUnpadded(config, imageCount) ==
    LET cols == IF config.Cols > 0 THEN config.Cols
                ELSE IF config.Rows > 0 THEN CeilOfQuotient(imageCount, config.Rows)
                ELSE FToInt(FCeil(FSqrt(FFromInt(imageCount))))
        rows == IF config.Cols = 0 /\ config.Rows > 0 THEN config.Rows
                ELSE CeilOfQuotient(imageCount, cols)
    IN  [Layout(config, cols, rows) EXCEPT !.Width = cols * config.TileWidth,
                                          !.Height = rows * config.TileHeight]

\* Generator.calculateLayout, for a positive Cols or Rows below LimbBase
calculateLayout(config, imageCount) ==
    LET cols == IF config.Cols > 0 THEN config.Cols
                ELSE IF config.Rows > 0 THEN CeilOfQuotient(imageCount, config.Rows)
                ELSE FToInt(FCeil(FSqrt(FFromInt(imageCount))))
        rows == IF config.Cols > 0 THEN CeilOfQuotient(imageCount, cols)
                ELSE IF config.Rows > 0 THEN config.Rows
                ELSE CeilOfQuotient(imageCount, cols)
    IN  Layout(config, cols, rows)

\* the SpritesheetMetadata createSpritesheet starts from
NewMetadata(layout) ==
    [Width |-> layout.Width, Height |-> layout.Height,
     TileWidth |-> layout.TileWidth, TileHeight |-> layout.TileHeight,
     Cols |-> layout.Cols, Rows |-> layout.Rows, Padding |-> layout.Padding,
     Sprites |-> <<>>]

\* SpriteInfo with the tiles placed down the columns
SpriteInfoColumnMajor(layout, info, i) ==
    [Name |-> info.Filename,
     X |-> (i \div layout.Rows) * (layout.TileWidth + layout.Padding),
     Y |-> (i % layout.Rows) * (layout.TileHeight + layout.Padding),
     Width |-> layout.TileWidth, Height |-> layout.TileHeight,
     Index |-> i]

\* the SpriteInfo createSpritesheet appends for images[i]
SpriteInfo(layout, info, i) ==
    [Name |-> info.Filename,
     X |-> (i % layout.Cols) * (layout.TileWidth + layout.Padding),
     Y |-> (i \div layout.Cols) * (layout.TileHeight + layout.Padding),
     Width |-> layout.TileWidth, Height |-> layout.TileHeight,
     Index |-> i]

\* one channel of a destination pixel after draw.Over: d, 8 bits, under the
\* 16-bit source channel s of a source of 16-bit alpha sa
Over(d, s, sa) == ((d * ((65535 - sa) * 257)) \div 65535 + s) \div 256

\* the pixel draw.Draw leaves where the source pixel c of an image of this
\* kind is drawn over the destination pixel d of an *image.RGBA
DrawOver(kind, c, d) ==
    LET sa == c.a * 257
        sv == IF kind = "NRGBA" THEN (c.v * sa) \div 255 ELSE c.v * 257
    IN  Pixel(Over(d.v, sv, sa), Over(d.a, sa, sa))

\* a draw that takes the whole destination for its rectangle and repeats the
\* source's first pixel
DrawEverywhere(dst, x, y, w, h, src) ==
    [dst EXCEPT !.pix =
        [p \in Points(dst.w, dst.h) |->
            DrawOver(src.kind, src.pix[<<0, 0>>], dst.pix[p])]]

\* draw.Draw(dst, image.Rect(x, y, x+w, y+h), src, image.Point{}, draw.Over):
\* the rectangle is clipped to dst and to src
Draw(dst, x, y, w, h, src) ==
    [dst EXCEPT !.pix =
        [p \in Points(dst.w, dst.h) |->
            IF /\ x <= p[1] /\ p[1] < x + w /\ y <= p[2] /\ p[2] < y + h
               /\ p[1] - x < src.w /\ p[2] - y < src.h
            THEN DrawOver(src.kind, src.pix[<<p[1] - x, p[2] - y>>], dst.pix[p])
            ELSE dst.pix[p]]]

\* the files Generate is given decode to one of two images
SheetDecoded ==
    {[kind |-> "NRGBA", w |-> 2, h |-> 1,
      pix |-> [p \in Points(2, 1) |-> IF p = <<0, 0>> THEN Visible("NRGBA") ELSE Hidden("NRGBA")]],
     [kind |-> "RGBA", w |-> 1, h |-> 1,
      pix |-> [p \in Points(1, 1) |-> Visible("RGBA")]]}

FilesOf(n) == [1 .. n -> SheetDecoded]

\* the configs SetDefaults and Validate let through, and the one without a
\* hint that calculateLayout provides for
SheetConfigs ==
    {c \in [Trim : BOOLEAN, TileWidth : 1 .. MaxTile, TileHeight : 1 .. MaxTile,
            Padding : 0 .. MaxPadding, Cols : 0 .. MaxHint, Rows : 0 .. MaxHint] :
        ~(c.Cols > 0 /\ c.Rows > 0)}

\* what Generate returns
GenerateError(msg) == [op |-> "returned", metadata |-> Nil, err |-> Error(msg)]
GenerateMetadata(meta) == [op |-> "returned", metadata |-> meta, err |-> Nil]

InitSheet ==
    /\ genCfg \in SheetConfigs
    /\ \E n \in 0 .. MaxFiles : genFiles \in FilesOf(n)
    /\ genPc = "Generate"
    /\ genImages = <<>>
    /\ genLayout = None
    /\ genSheet = None
    /\ genMeta = None
    /\ genOut = None
    /\ DimsIdle /\ RegistryIdle /\ RunIdle /\ ProbeIdle /\ QueryIdle /\ RodIdle
    /\ ImageIdle /\ BatchIdle

\* Generate, up to the call of loadImages
SheetGenerate ==
    /\ genPc = "Generate"
    /\ IF Len(genFiles) = 0
       THEN genPc' = "done" /\ genOut' = GenerateError("no PNG files provided")
       ELSE genPc' = "loadImages" /\ genOut' = genOut
    /\ UNCHANGED <<genCfg, genFiles, genImages, genLayout, genSheet, genMeta, notSheet>>

\* one turn of the loop of loadImages, which returns after the last file
SheetLoadImages ==
    /\ genPc = "loadImages"
    /\ \E loaded \in BOOLEAN :
          IF loaded
          THEN /\ genImages' = Append(genImages, ImageInfo(processImage(genCfg, Head(genFiles)), "icon"))
               /\ genFiles' = Tail(genFiles)
               /\ genPc' = IF Tail(genFiles) = <<>> THEN "calculateLayout" ELSE genPc
               /\ UNCHANGED genOut
          ELSE /\ genPc' = "done"
               /\ genOut' = GenerateError("failed to load images")
               /\ UNCHANGED <<genImages, genFiles>>
    /\ UNCHANGED <<genCfg, genLayout, genSheet, genMeta, notSheet>>

\* layout := g.calculateLayout(len(images))
SheetCalculateLayout ==
    /\ genPc = "calculateLayout"
    /\ genLayout' = calculateLayout(genCfg, Len(genImages))
    /\ genPc' = "createSpritesheet"
    /\ UNCHANGED <<genCfg, genFiles, genImages, genSheet, genMeta, genOut, notSheet>>

\* createSpritesheet, up to its loop
SheetCreateSpritesheet ==
    /\ genPc = "createSpritesheet"
    /\ genSheet' = NewRGBA(genLayout.Width, genLayout.Height)
    /\ genMeta' = NewMetadata(genLayout)
    /\ genPc' = "place"
    /\ UNCHANGED <<genCfg, genFiles, genImages, genLayout, genOut, notSheet>>

\* one turn of the loop of createSpritesheet, and its return after the last
SheetPlace ==
    /\ genPc = "place"
    /\ LET i == Len(genMeta.Sprites) IN
       IF i < Len(genImages)
       THEN LET sprite == SpriteInfo(genLayout, genImages[i + 1], i) IN
            /\ genSheet' = Draw(genSheet, sprite.X, sprite.Y,
                                genLayout.TileWidth, genLayout.TileHeight,
                                genImages[i + 1].Image)
            /\ genMeta' = [genMeta EXCEPT !.Sprites = Append(@, sprite)]
            /\ UNCHANGED genPc
       ELSE /\ genPc' = "saveSpritesheet"
            /\ UNCHANGED <<genSheet, genMeta>>
    /\ UNCHANGED <<genCfg, genFiles, genImages, genLayout, genOut, notSheet>>

\* saveSpritesheet and the return of Generate
SheetSaveSpritesheet ==
    /\ genPc = "saveSpritesheet"
    /\ \E saved \in BOOLEAN :
          genOut' = IF saved THEN GenerateMetadata(genMeta)
                    ELSE GenerateError("failed to save spritesheet")
    /\ genPc' = "done"
    /\ UNCHANGED <<genCfg, genFiles, genImages, genLayout, genSheet, genMeta, notSheet>>

NextSheet ==
    \/ SheetGenerate
    \/ SheetLoadImages
    \/ SheetCalculateLayout
    \/ SheetCreateSpritesheet
    \/ SheetPlace
    \/ SheetSaveSpritesheet

SpecSheet == InitSheet /\ [][NextSheet]_vars

\* Exporter.ValidateMetadata: the first check that fails, or nil
ValidateMetadata(metadata) ==
    LET bad(sprite) ==
            \/ sprite.Name = ""
            \/ sprite.X < 0 \/ sprite.Y < 0
            \/ sprite.Width <= 0 \/ sprite.Height <= 0
            \/ sprite.X + sprite.Width > metadata.Width
            \/ sprite.Y + sprite.Height > metadata.Height
        bads == {k \in 1 .. Len(metadata.Sprites) : bad(metadata.Sprites[k])}
        first == metadata.Sprites[Min(bads)]
    IN  IF metadata.Width <= 0 \/ metadata.Height <= 0
        THEN Error("invalid spritesheet dimensions")
        ELSE IF metadata.TileWidth <= 0 \/ metadata.TileHeight <= 0
        THEN Error("invalid tile dimensions")
        ELSE IF metadata.Cols <= 0 \/ metadata.Rows <= 0
        THEN Error("invalid grid dimensions")
        ELSE IF Len(metadata.Sprites) = 0 THEN Error("no sprites in metadata")
        ELSE IF bads = {} THEN Nil
        ELSE IF first.Name = "" THEN Error("sprite has empty name")
        ELSE IF first.X < 0 \/ first.Y < 0 THEN Error("sprite has invalid position")
        ELSE IF first.Width <= 0 \/ first.Height <= 0
        THEN Error("sprite has invalid dimensions")
        ELSE Error("sprite extends beyond spritesheet bounds")

(***************************************************************************)
(* calculateLayout and createSpritesheet on their own: called, as Generate *)
(* calls them, with a list of ImageInfo, here of any size.                 *)
(***************************************************************************)
InitCompose ==
    /\ genCfg \in {c \in SheetConfigs : ~c.Trim}
    /\ genFiles = <<>>
    /\ genPc = "calculateLayout"
    /\ \E n \in 1 .. MaxFiles - 1 :
          genImages \in {[k \in 1 .. n |-> ImageInfo(decoded[k], "icon")] :
                           decoded \in FilesOf(n)}
    /\ genLayout = None
    /\ genSheet = None
    /\ genMeta = None
    /\ genOut = None
    /\ DimsIdle /\ RegistryIdle /\ RunIdle /\ ProbeIdle /\ QueryIdle /\ RodIdle
    /\ ImageIdle /\ BatchIdle

NextCompose == SheetCalculateLayout \/ SheetCreateSpritesheet \/ SheetPlace

SpecCompose == InitCompose /\ [][NextCompose]_vars

\* the ceiling of a / b and of the square root of n, in integers
CeilDiv(a, b) == (a + b - 1) \div b
CeilSqrt(n) == Min({k \in 0 .. n : k * k >= n})

LayoutDone == genLayout # None /\ genLayout # Off
tileCount == Len(genImages)

\* C14: the layout is the reference layout: with a Cols hint c, c columns and
\* ceil(n / c) rows; else with a Rows hint r, r rows and ceil(n / r) columns;
\* else ceil(sqrt(n)) columns and ceil(n / columns) rows; the width is
\* columns*TileWidth + (columns-1)*Padding and the height likewise.
ThmC14_LayoutIsReference ==
    LayoutDone =>
        LET n == tileCount
            columns == IF genCfg.Cols > 0 THEN genCfg.Cols
                       ELSE IF genCfg.Rows > 0 THEN CeilDiv(n, genCfg.Rows)
                       ELSE CeilSqrt(n)
            rows == IF genCfg.Cols > 0 THEN CeilDiv(n, columns)
                    ELSE IF genCfg.Rows > 0 THEN genCfg.Rows
                    ELSE CeilDiv(n, columns)
        IN  /\ genLayout.Cols = columns
            /\ genLayout.Rows = rows
            /\ genLayout.TileWidth = genCfg.TileWidth
            /\ genLayout.TileHeight = genCfg.TileHeight
            /\ genLayout.Padding = genCfg.Padding
            /\ genLayout.Width = columns * genCfg.TileWidth + (columns - 1) * genCfg.Padding
            /\ genLayout.Height = rows * genCfg.TileHeight + (rows - 1) * genCfg.Padding

\* three tiles of 2 x 1 without a hint: 2 columns, 2 rows, 5 x 3 with padding 1
WitC14_SquareDefault ==
    /\ LayoutDone /\ tileCount = 3
    /\ genCfg.Cols = 0 /\ genCfg.Rows = 0 /\ genCfg.Padding = 1
    /\ genCfg.TileWidth = 2 /\ genCfg.TileHeight = 1
    /\ genLayout.Cols = 2 /\ genLayout.Rows = 2
    /\ genLayout.Width = 5 /\ genLayout.Height = 3

\* C15 (as claimed): whatever the hint, (rows-1)*columns < n <= rows*columns.
CexC15_NoEmptyRow ==
    LayoutDone =>
        /\ (genLayout.Rows - 1) * genLayout.Cols < tileCount
        /\ tileCount <= genLayout.Rows * genLayout.Cols

\* C15 (amended): the grid holds the n tiles; with a Cols hint or no hint no
\* row is empty, (rows-1)*columns < n; with a Rows hint no column could be
\* spared, (columns-1)*rows < n, and rows may be empty.
ThmC15_NoSpareRowOrColumn ==
    LayoutDone =>
        /\ tileCount <= genLayout.Rows * genLayout.Cols
        /\ IF genCfg.Cols = 0 /\ genCfg.Rows > 0
           THEN (genLayout.Cols - 1) * genLayout.Rows < tileCount
           ELSE (genLayout.Rows - 1) * genLayout.Cols < tileCount

\* two tiles with a Rows hint of 3: one column of three rows, the last empty
WitC15_RowsHintLeavesEmptyRow ==
    /\ LayoutDone /\ tileCount = 2
    /\ genCfg.Cols = 0 /\ genCfg.Rows = 3
    /\ genLayout.Cols = 1 /\ genLayout.Rows = 3

Placed == IF genMeta = None \/ genMeta = Off THEN <<>> ELSE genMeta.Sprites

\* C16: the tile at ordinal i (0-based) is recorded at x = (i mod columns) *
\* (TileWidth + Padding), y = (i div columns) * (TileHeight + Padding) with the
\* size TileWidth x TileHeight, and its pixels are drawn there.
ThmC16_RowMajorPlacement ==
    \A k \in 1 .. Len(Placed) :
        LET i == k - 1
            sprite == Placed[k]
            tile == genImages[k].Image
            x == (i % genLayout.Cols) * (genCfg.TileWidth + genCfg.Padding)
            y == (i \div genLayout.Cols) * (genCfg.TileHeight + genCfg.Padding)
        IN  /\ sprite.X = x /\ sprite.Y = y
            /\ sprite.Width = genCfg.TileWidth /\ sprite.Height = genCfg.TileHeight
            /\ \A p \in Points(genCfg.TileWidth, genCfg.TileHeight) :
                  genSheet.pix[<<x + p[1], y + p[2]>>] = ConvertRGBA(tile.kind, tile.pix[p])

\* three tiles of 2 x 1, padding 1, 2 columns: placed at (0,0), (3,0), (0,2),
\* the second one an NRGBA image drawn as decoded
WitC16_ThreeTilesTwoColumns ==
    /\ Len(Placed) = 3 /\ genCfg.Cols = 2 /\ genCfg.Padding = 1
    /\ genCfg.TileWidth = 2 /\ genCfg.TileHeight = 1
    /\ <<Placed[1].X, Placed[1].Y>> = <<0, 0>>
    /\ <<Placed[2].X, Placed[2].Y>> = <<3, 0>>
    /\ <<Placed[3].X, Placed[3].Y>> = <<0, 2>>
    /\ genImages[2].Image.kind = "NRGBA"
    /\ genSheet.pix[<<3, 0>>] = Pixel(50, 128)

GenerateReturned ==
    genPc = "done" /\ genOut.err = Nil

\* C17: in the metadata Generate returns, every sprite lies within the sheet,
\* no two sprites overlap, sprite k of the list has index k (0-based), and
\* ValidateMetadata accepts the metadata.
ThmC17_SheetMetadataInvariant ==
    GenerateReturned =>
        LET meta == genOut.metadata
            sprites == meta.Sprites
        IN  /\ Len(sprites) = tileCount
            /\ \A k \in 1 .. Len(sprites) :
                  /\ sprites[k].X >= 0 /\ sprites[k].Y >= 0
                  /\ sprites[k].X + sprites[k].Width <= meta.Width
                  /\ sprites[k].Y + sprites[k].Height <= meta.Height
                  /\ sprites[k].Index = k - 1
            /\ \A j, k \in 1 .. Len(sprites) :
                  j # k =>
                     \/ sprites[j].X + sprites[j].Width <= sprites[k].X
                     \/ sprites[k].X + sprites[k].Width <= sprites[j].X
                     \/ sprites[j].Y + sprites[j].Height <= sprites[k].Y
                     \/ sprites[k].Y + sprites[k].Height <= sprites[j].Y
            /\ ValidateMetadata(meta) = Nil

\* a sheet of three sprites under a Rows hint of 2, with padding
WitC17_ThreeSpritesRowsHint ==
    /\ GenerateReturned /\ Len(genOut.metadata.Sprites) = 3
    /\ genCfg.Rows = 2 /\ genCfg.Padding = 1
    /\ genOut.metadata.Cols = 2 /\ genOut.metadata.Rows = 2

Alpha(img) == {p \in Points(img.w, img.h) : RGBA(img.kind, img.pix[p]).a > 0}

\* C19: the image processImage returns, and the Width and Height loadImages
\* records for it, are exactly TileWidth x TileHeight, whatever the decoded
\* image and the Trim setting.
ThmC19_ProcessedIsTileSized ==
    imgInfo # None =>
        /\ imgInfo.Image.w = imgCfg.TileWidth /\ imgInfo.Image.h = imgCfg.TileHeight
        /\ imgInfo.Width = imgCfg.TileWidth /\ imgInfo.Height = imgCfg.TileHeight
        /\ DOMAIN imgInfo.Image.pix = Points(imgCfg.TileWidth, imgCfg.TileHeight)

\* a fully transparent 2 x 1 image, trimmed to 1 x 1 and resized to a 2 x 2 tile
WitC19_TransparentTrimmedAndResized ==
    /\ imgInfo # None /\ imgCfg.Trim
    /\ imgSrc.w = 2 /\ imgSrc.h = 1 /\ Alpha(imgSrc) = {}
    /\ imgCfg.TileWidth = 2 /\ imgCfg.TileHeight = 2
    /\ imgInfo.Image.w = 2 /\ imgInfo.Image.h = 2

FloorSample(x, srcSize, size) == Min({(x * srcSize) \div size, srcSize - 1})

\* C21 (as claimed): ResizeImage of an image that has the target size already
\* returns that image, pixel for pixel; for another target size w x h the
\* result is w x h and its pixel at (x, y) is the source pixel at
\* (floor(x*srcW/w), floor(y*srcH/h)), clamped to the source, as an RGBA
\* image stores it.
CexC21_ResizeSamplesFloor ==
    imgResized # None =>
        IF imgSrc.w = imgCfg.TileWidth /\ imgSrc.h = imgCfg.TileHeight
        THEN imgResized = imgSrc
        ELSE /\ imgResized.w = imgCfg.TileWidth /\ imgResized.h = imgCfg.TileHeight
             /\ \A p \in Points(imgCfg.TileWidth, imgCfg.TileHeight) :
                   imgResized.pix[p] =
                       ConvertRGBA(imgSrc.kind,
                                   imgSrc.pix[<<FloorSample(p[1], imgSrc.w, imgCfg.TileWidth),
                                                FloorSample(p[2], imgSrc.h, imgCfg.TileHeight)>>])

\* the point p lies in the rectangle createSpritesheet draws the sprite in
InCell(p, sprite) ==
    /\ sprite.X <= p[1] /\ p[1] < sprite.X + sprite.Width
    /\ sprite.Y <= p[2] /\ p[2] < sprite.Y + sprite.Height

\* the sheet exists: createSpritesheet has made the canvas
SheetMade == genSheet # None /\ genSheet # Off

\* the points of the sheet outside the rectangles of the tiles placed so far
OutsideCells ==
    {p \in Points(genSheet.w, genSheet.h) :
        \A k \in 1 .. Len(Placed) : ~InCell(p, Placed[k])}

\* a turn of the loop of createSpritesheet that draws tile i leaves every
\* pixel outside the rectangle of tile i as it was
PlaceKeepsOutside ==
    (SheetMade /\ Len(Placed') = Len(Placed) + 1) =>
        \A p \in Points(genSheet.w, genSheet.h) :
            InCell(p, Placed'[Len(Placed')]) \/ genSheet'.pix[p] = genSheet.pix[p]

\* C26: compositing touches only tile cells: at every point of the loop of
\* createSpritesheet and after it, each pixel of the canvas outside the
\* rectangles of the tiles placed (padding gaps, unused trailing cells) is
\* fully transparent, and drawing tile i changes no pixel outside the
\* rectangle of tile i.
ThmC26_OnlyCellsTouched ==
    /\ [](SheetMade => \A p \in OutsideCells : genSheet.pix[p] = Pixel(0, 0))
    /\ [][PlaceKeepsOutside]_vars

\* three visible tiles of 1 x 1 in 2 columns with padding 1: the sheet is
\* 3 x 3, the gap column and row and the unused fourth cell are transparent
WitC26_GapsAndTrailingCell ==
    /\ genPc = "saveSpritesheet" /\ Len(Placed) = 3
    /\ genLayout.Cols = 2 /\ genLayout.Rows = 2 /\ genCfg.Padding = 1
    /\ genSheet.w = 3 /\ genSheet.h = 3
    /\ genSheet.pix[<<0, 0>>].a > 0 /\ genSheet.pix[<<2, 0>>].a > 0
    /\ genSheet.pix[<<0, 2>>].a > 0
    /\ <<1, 0>> \in OutsideCells /\ <<1, 1>> \in OutsideCells
    /\ <<2, 2>> \in OutsideCells /\ genSheet.pix[<<2, 2>>].a = 0

(***************************************************************************)
(* SpecBatch: one run of runSvg2Sheet on an input directory, with the      *)
(* files it creates, writes and removes.                                   *)
(***************************************************************************)
maxTileSize == 2048
maxGridSize == 100
maxPadding == 100

\* Config.IsSpritesheetMode
IsSpritesheetMode(c) ==
    c.TileWidth > 0 /\ c.TileHeight > 0 /\ (c.Cols > 0 \/ c.Rows > 0)

\* filepath.Base of the path of a file: its last element
RECURSIVE BaseFrom(_, _)
BaseFrom(path, i) ==
    IF i < 1 \/ SubSeq(path, i, i) = "/" THEN SubSeq(path, i + 1, Len(path))
    ELSE BaseFrom(path, i - 1)
Base(path) == BaseFrom(path, Len(path))

\* the bytes of the model's paths, in ascending order
ByteOrder == "./abeginopstvx"

\* s < t of two Go strings
RECURSIVE StringLess(_, _)
StringLess(s, t) ==
    IF t = "" THEN FALSE
    ELSE IF s = "" THEN TRUE
    ELSE IF CharAt(s, 0) = CharAt(t, 0) THEN StringLess(SliceFrom(s, 1), SliceFrom(t, 1))
    ELSE Index(ByteOrder, CharAt(s, 0)) < Index(ByteOrder, CharAt(t, 0))

\* Processor.getInputFiles: filepath.Walk visits the files in lexical order
getInputFiles(dir) ==
    LET found == {path \in dir : Ext(path) = ".svg" \/ Ext(path) = ".png"}
    IN  CHOOSE files \in Perms(found) :
            \A i, j \in 1 .. Len(files) : i < j => StringLess(files[i], files[j])

\* sortByName: the orders sort.Slice can leave the files in
sortByName(files) ==
    {sorted \in Perms(Range(files)) :
        \A i, j \in 1 .. Len(sorted) :
            i < j => ~StringLess(Base(sorted[j]), Base(sorted[i]))}

\* utils.SortFiles: the lists it can return; sortByCTime orders the files by
\* the modification times the host reports
SortFiles(files, mode) ==
    IF mode = SortByName THEN sortByName(files)
    ELSE IF mode = SortByCTime THEN Perms(Range(files))
    ELSE {files}

\* FileMapping with the PNG file in the place of the original one
FileMappingOfPNG(pngPath, originalPath, isTemporary) ==
    [PNGPath |-> pngPath, OriginalPath |-> pngPath, IsTemporary |-> isTemporary]

FileMapping(pngPath, originalPath, isTemporary) ==
    [PNGPath |-> pngPath, OriginalPath |-> originalPath, IsTemporary |-> isTemporary]

\* loadImages: the sprite name, the base name of the original file without
\* its extension
OriginalName(originalPath) ==
    LET originalName == Base(originalPath)
        ext == Ext(originalName)
    IN  IF ext # "" THEN SubSeq(originalName, 1, Len(originalName) - Len(ext))
        ELSE originalName

\* the metadata createSpritesheet returns for the images of these mappings
SheetMetadata(config, fileMappings) ==
    LET layout == calculateLayout(config, Len(fileMappings))
    IN  [NewMetadata(layout) EXCEPT
            !.Sprites = [k \in 1 .. Len(fileMappings) |->
                            SpriteInfo(layout,
                                       [Filename |-> OriginalName(fileMappings[k].OriginalPath)],
                                       k - 1)]]

\* the cleanup closure of preparePNGFiles: os.Remove of each of tempFiles
cleanup(fs, tempFiles) == [fs EXCEPT !.temps = @ \ Range(tempFiles)]

\* the path os.CreateTemp makes for the file of this turn
TempFile(n) == "/tmp/svg2sheet_" \o ToString(n) \o ".png"

BatchPaths == {"in/a.png", "in/a.svg", "in/.svg", "in/notes.txt"}

\* command lines with at most one of --tile-width, --cols and --padding
BatchFlags ==
    {f \in [Input : {"in"}, Output : {"sheet.png"},
            Scale : {Lit(0, 1)}, Width : {0}, Height : {0},
            TileWidth : {0, maxTileSize + 1}, TileHeight : {0},
            Cols : {0, maxGridSize + 1}, Rows : {0},
            Padding : {0, maxPadding + 1},
            Sort : {"", SortByCTime, SortManual}, Meta : {"", "sheet.json"},
            Trim : {FALSE}, Force : BOOLEAN, Verbose : {FALSE}, Converter : {""}] :
        Cardinality({f.TileWidth, f.Cols, f.Padding} \ {0}) <= 1}

InitBatch ==
    /\ batFlags \in BatchFlags
    /\ batCfg = batFlags
    /\ batPc = "start"
    /\ batErr = Nil
    /\ batDir \in {dir \in SUBSET BatchPaths : Cardinality(dir) <= MaxFiles}
    /\ batFs \in [output : {"absent", "old"}, meta : {"absent", "old"},
                  temps : {{}}, pngs : {{}}]
    /\ batFiles = <<>>
    /\ batIndex = 0
    /\ batMappings = <<>>
    /\ batTemps = <<>>
    /\ batMeta = None
    /\ batWork = {}
    /\ DimsIdle /\ RegistryIdle /\ RunIdle /\ ProbeIdle /\ QueryIdle /\ RodIdle
    /\ ImageIdle /\ SheetIdle

\* runSvg2Sheet: cfg.SetDefaults() and cfg.Validate()
BatchValidate ==
    /\ batPc = "start"
    /\ batCfg' = SetDefaults(batCfg)
    /\ IF Validate(batCfg') # Nil
       THEN batErr' = ConfigurationError(Validate(batCfg')) /\ batPc' = "done"
       ELSE batErr' = batErr /\ batPc' = "stat"
    /\ UNCHANGED <<batFlags, batDir, batFs, batFiles, batIndex, batMappings, batTemps,
                   batMeta, batWork, notBatch>>

\* runSvg2Sheet: the two os.Stat checks
BatchStat ==
    /\ batPc = "stat"
    /\ \E inputExists \in BOOLEAN :
          IF ~inputExists
          THEN batErr' = Error("input path does not exist") /\ batPc' = "done"
          ELSE IF batFs.output # "absent" /\ ~batCfg.Force
          THEN batErr' = Error("output file already exists") /\ batPc' = "done"
          ELSE batErr' = batErr /\ batPc' = "executeOperation"
    /\ UNCHANGED <<batFlags, batCfg, batDir, batFs, batFiles, batIndex, batMappings,
                   batTemps, batMeta, batWork, notBatch>>

\* executeOperation: NewProcessor, then Process up to its branch
BatchExecuteOperation ==
    /\ batPc = "executeOperation"
    /\ \E env \in Envs, stat \in {"error", "directory", "file"} :
          IF Create(batCfg.Converter, NewConversionOptions(batCfg), env).err # Nil
          THEN batErr' = Error("failed to create processor") /\ batPc' = "done"
          ELSE IF stat = "error"
          THEN batErr' = Error("failed to stat input") /\ batPc' = "done"
          ELSE IF stat = "file" /\ ~IsSVGInput(batCfg)
          THEN /\ batErr' = Error("single file input must be an SVG file")
               /\ batPc' = "done"
          ELSE batErr' = batErr /\ batPc' = "processDirectory"
    /\ UNCHANGED <<batFlags, batCfg, batDir, batFs, batFiles, batIndex, batMappings,
                   batTemps, batMeta, batWork, notBatch>>

\* convertFiles: the first count files are written into the output directory
convertFiles(fs, files, count) ==
    [fs EXCEPT !.pngs = @ \cup {OriginalName(files[k]) \o ".png" : k \in 1 .. count}]

\* processDirectory, and convertFiles when it is the branch taken
BatchProcessDirectory ==
    /\ batPc = "processDirectory"
    /\ \E walked \in BOOLEAN, statted \in BOOLEAN :
          LET files == getInputFiles(batDir) IN
          IF ~walked
          THEN /\ batErr' = Error("failed to get input files") /\ batPc' = "done"
               /\ UNCHANGED <<batFiles, batFs, batWork>>
          ELSE IF Len(files) = 0
          THEN /\ batErr' = Error("no valid input files found in directory")
               /\ batPc' = "done"
               /\ UNCHANGED <<batFiles, batFs, batWork>>
          ELSE IF batCfg.Sort = SortByCTime /\ ~statted
          THEN /\ batErr' = Error("failed to sort files") /\ batPc' = "done"
               /\ UNCHANGED <<batFiles, batFs, batWork>>
          ELSE \E sortedFiles \in SortFiles(files, batCfg.Sort) :
                  IF IsSpritesheetMode(batCfg)
                  THEN /\ batFiles' = sortedFiles
                       /\ batPc' = "preparePNGFiles"
                       /\ UNCHANGED <<batErr, batFs, batWork>>
                  ELSE \E count \in 0 .. Len(sortedFiles) :
                          /\ batFs' = convertFiles(batFs, sortedFiles, count)
                          /\ batWork' = batWork \cup {"convert", "write"}
                          /\ batErr' = IF count < Len(sortedFiles)
                                       THEN Error("failed to convert") ELSE Nil
                          /\ batPc' = "done"
                          /\ UNCHANGED batFiles
    /\ UNCHANGED <<batFlags, batCfg, batDir, batIndex, batMappings, batTemps,
                   batMeta, notBatch>>

\* one turn of the loop of preparePNGFiles; after the last one
\* generateSpritesheet goes on to Generate, and after an error it returns
BatchPreparePNGFiles ==
    /\ batPc = "preparePNGFiles"
    /\ LET file == batFiles[batIndex + 1]
           ext == Ext(file)
           tempFile == TempFile(batIndex)
           next == IF batIndex + 1 = Len(batFiles) THEN "Generate" ELSE batPc
       IN  IF ext = ".png"
           THEN /\ batMappings' = Append(batMappings, FileMapping(file, file, FALSE))
                /\ batIndex' = batIndex + 1
                /\ batPc' = next
                /\ UNCHANGED <<batErr, batFs, batTemps, batWork>>
           ELSE IF ext = ".svg"
           THEN \/ /\ batErr' = Error("failed to create temp file")
                   /\ batFs' = cleanup(batFs, batTemps)
                   /\ batPc' = "done"
                   /\ UNCHANGED <<batIndex, batMappings, batTemps, batWork>>
                \/ /\ batErr' = Error("failed to convert")
                   /\ batFs' = cleanup([batFs EXCEPT !.temps = @ \cup {tempFile}],
                                       batTemps)
                   /\ batWork' = batWork \cup {"write", "convert"}
                   /\ batPc' = "done"
                   /\ UNCHANGED <<batIndex, batMappings, batTemps>>
                \/ /\ batFs' = [batFs EXCEPT !.temps = @ \cup {tempFile}]
                   /\ batWork' = batWork \cup {"write", "convert"}
                   /\ batMappings' = Append(batMappings, FileMapping(tempFile, file, TRUE))
                   /\ batTemps' = Append(batTemps, tempFile)
                   /\ batIndex' = batIndex + 1
                   /\ batPc' = next
                   /\ UNCHANGED batErr
           ELSE /\ batIndex' = batIndex + 1
                /\ batPc' = next
                /\ UNCHANGED <<batErr, batFs, batMappings, batTemps, batWork>>
    /\ UNCHANGED <<batFlags, batCfg, batDir, batFiles, batMeta, notBatch>>

\* saveSpritesheet with the output file left as it was
saveSpritesheetNowhere(fs, saved) == fs

\* the files after saveSpritesheet: os.Create failed, or png.Encode failed on
\* the file created, or the sheet is written
saveSpritesheet(fs, saved) ==
    [fs EXCEPT !.output = IF saved = "saved" THEN "sheet"
                          ELSE IF saved = "not encoded" THEN "partial"
                          ELSE @]

\* generateSpritesheet: p.generator.Generate(fileMappings, p.config.Output),
\* and the deferred cleanup when it fails
BatchGenerate ==
    /\ batPc = "Generate"
    /\ \E loaded \in 0 .. Len(batMappings),
          saved \in {"saved", "not created", "not encoded"} :
          IF Len(batMappings) = 0
          THEN /\ batErr' = Error("no PNG files provided")
               /\ batFs' = cleanup(batFs, batTemps)
               /\ batPc' = "done"
               /\ UNCHANGED <<batMeta, batWork>>
          ELSE IF loaded < Len(batMappings)
          THEN /\ batErr' = Error("failed to load images")
               /\ batFs' = cleanup(batFs, batTemps)
               /\ batWork' = batWork \cup {"load"}
               /\ batPc' = "done"
               /\ UNCHANGED batMeta
          ELSE IF saved # "saved"
          THEN /\ batErr' = Error("failed to save spritesheet")
               /\ batFs' = cleanup(saveSpritesheet(batFs, saved), batTemps)
               /\ batWork' = batWork \cup IF saved = "not created" THEN {"load"}
                                          ELSE {"load", "write"}
               /\ batPc' = "done"
               /\ UNCHANGED batMeta
          ELSE /\ batMeta' = SheetMetadata(batCfg, batMappings)
               /\ batFs' = saveSpritesheet(batFs, saved)
               /\ batWork' = batWork \cup {"load", "write"}
               /\ batPc' = "Export"
               /\ UNCHANGED batErr
    /\ UNCHANGED <<batFlags, batCfg, batDir, batFiles, batIndex, batMappings, batTemps,
                   notBatch>>

\* generateSpritesheet after Generate: Export when --meta is given, and the
\* deferred cleanup
BatchExport ==
    /\ batPc = "Export"
    /\ IF batCfg.Meta # ""
       THEN \E exported \in {"written", "not created", "not written"} :
               /\ batFs' = cleanup([batFs EXCEPT !.meta =
                                       IF exported = "written" THEN "metadata"
                                       ELSE IF exported = "not written" THEN "partial"
                                       ELSE @],
                                   batTemps)
               /\ batWork' = IF exported = "not created" THEN batWork
                             ELSE batWork \cup {"write"}
               /\ batErr' = IF exported = "written" THEN Nil
                            ELSE Error("failed to export metadata")
       ELSE /\ batFs' = cleanup(batFs, batTemps)
            /\ UNCHANGED <<batErr, batWork>>
    /\ batPc' = "done"
    /\ UNCHANGED <<batFlags, batCfg, batDir, batFiles, batIndex, batMappings, batTemps,
                   batMeta, notBatch>>

NextBatch ==
    \/ BatchValidate
    \/ BatchStat
    \/ BatchExecuteOperation
    \/ BatchProcessDirectory
    \/ BatchPreparePNGFiles
    \/ BatchGenerate
    \/ BatchExport

SpecBatch == InitBatch /\ [][NextBatch]_vars

(***************************************************************************)
(* Claims about a run on a directory                                       *)
(***************************************************************************)
BatchValidated == batPc # "start"
BatchReturned == batPc = "done"

\* C22 (as claimed): a run whose tile width or tile height is above 2048,
\* whose cols or rows is above 100 or whose padding is above 100 ends with a
\* configuration error, and has converted, loaded and written nothing.
CexC22_LayoutBoundsRejected ==
    \/ batFlags.TileWidth > maxTileSize \/ batFlags.TileHeight > maxTileSize
    \/ batFlags.Cols > maxGridSize \/ batFlags.Rows > maxGridSize
    \/ batFlags.Padding > maxPadding
    => /\ BatchValidated => batErr.kind = "configuration error"
       /\ batWork = {}

\* C23 (as claimed): a run on a directory without --tile-width, --tile-height,
\* --cols and --rows never enters generateSpritesheet and writes no sheet, and
\* when it returns without an error the output directory holds one PNG per
\* input file.
CexC23_FolderModeConvertsFiles ==
    /\ batFlags.TileWidth = 0 /\ batFlags.TileHeight = 0
    /\ batFlags.Cols = 0 /\ batFlags.Rows = 0
    => /\ batPc \notin {"preparePNGFiles", "Generate", "Export"}
       /\ batFs.output \notin {"sheet", "partial"}
       /\ BatchReturned /\ batErr = Nil =>
             batFs.pngs = {OriginalName(file) \o ".png" :
                             file \in Range(getInputFiles(batDir))}

\* C24 (as claimed): without --force, a step of the run leaves an output
\* file and a metadata file that existed before the run as they were, and a
\* run that finds the output path, or the --meta path, existing goes no
\* further than its checks and writes nothing.
CexC24_NoOverwriteWithoutForce ==
    [][~batFlags.Force =>
          /\ batFs.output = "old" => batFs'.output = "old"
          /\ batFs.meta = "old" => batFs'.meta = "old"
          /\ \/ batFs.output = "old"
             \/ batFlags.Meta # "" /\ batFs.meta = "old"
             => batPc' \in {"start", "stat", "done"} /\ batWork' = {}]_vars

\* C25: the metadata Generate returns for the sorted files has one sprite per
\* file; sprite k of the list has index k (0-based), lies in cell k of the
\* grid in row-major order and carries the base name of file k of the sorted
\* list without its extension.
ThmC25_OrdinalsFollowInput ==
    batMeta # None =>
        /\ Len(batMeta.Sprites) = Len(batFiles)
        /\ \A k \in 1 .. Len(batFiles) :
              LET sprite == batMeta.Sprites[k] IN
              /\ sprite.Index = k - 1
              /\ sprite.X = ((k - 1) % batMeta.Cols) * (batMeta.TileWidth + batMeta.Padding)
              /\ sprite.Y = ((k - 1) \div batMeta.Cols) * (batMeta.TileHeight + batMeta.Padding)
              /\ sprite.Name \o Ext(Base(batFiles[k])) = Base(batFiles[k])

\* three files sorted by time, the .png between the two .svg that went
\* through temporary files
WitC25_ThreeFilesByTime ==
    /\ batMeta # None
    /\ batFiles = <<"in/a.svg", "in/a.png", "in/.svg">>
    /\ batMappings[1].IsTemporary /\ ~batMappings[2].IsTemporary
    /\ batMappings[3].IsTemporary
    /\ batMeta.Sprites[1].Name = "a" /\ batMeta.Sprites[3].Name = ""

\* C28 (as claimed): when the run has returned, no temporary file that
\* preparePNGFiles created is left.
CexC28_NoTempFileLeft ==
    BatchReturned => batFs.temps = {}

\* C29: a metadata file is written only with --meta given and with the sheet
\* generated and saved; when preparing the files, loading the images or
\* saving the sheet failed, no metadata file is written.
ThmC29_MetadataAfterSheet ==
    /\ batFs.meta \in {"metadata", "partial"} =>
          /\ batFlags.Meta # ""
          /\ batFs.output = "sheet"
          /\ batMeta # None
    /\ batErr \in {Error("failed to create temp file"), Error("failed to convert"),
                   Error("no PNG files provided"), Error("failed to load images"),
                   Error("failed to save spritesheet")} =>
          batFs.meta \in {"absent", "old"}

\* a run with --meta that wrote the sheet and then the metadata
WitC29_SheetThenMetadata ==
    /\ BatchReturned /\ batErr = Nil /\ batFlags.Meta = "sheet.json"
    /\ batFs.output = "sheet" /\ batFs.meta = "metadata"

\* C30 (as claimed): the sprite names of the metadata Generate returns are
\* non-empty and pairwise distinct, and ValidateMetadata accepts the metadata.
CexC30_SpriteNamesDistinct ==
    batMeta # None =>
        /\ \A k \in 1 .. Len(batMeta.Sprites) : batMeta.Sprites[k].Name # ""
        /\ \A j, k \in 1 .. Len(batMeta.Sprites) :
              j # k => batMeta.Sprites[j].Name # batMeta.Sprites[k].Name
        /\ ValidateMetadata(batMeta) = Nil

=============================================================================
